---------------------------- MODULE Spec2Model ----------------------------
(***************************************************************************)
(* A model of the tsunami Pixelflut client (bits0rcerer/tsunami).          *)
(*                                                                         *)
(* Part I, the connection engine (epizentrum/src/flut_op.rs): FlutOp is a  *)
(* RingOperation driven by an io_uring submission/completion queue.  The   *)
(* model keeps the engine's fields, the operations in flight together with *)
(* their ring data, and one action per branch of setup, on_completion and  *)
(* on_teardown_completion.                                                 *)
(*                                                                         *)
(* Part II, the frame sources (epizentrum/src/frame_source) and the caches *)
(* in front of them (epizentrum/src/lib.rs): MediaSource::frame,           *)
(* ComputeOnceCache and SingleFrameCache, each under a specification of    *)
(* its own that queries it at every delta of a bounded range.              *)
(*                                                                         *)
(* Part III, the draw order (epizentrum/src/draw_strategy.rs) and the names *)
(* of the strategies (Display, FromStr).                                   *)
(*                                                                         *)
(* Part IV, the SIZE handshake (tsunami/src/main.rs, get_size).            *)
(*                                                                         *)
(* Part V, the frame processors (epizentrum/src/frame_processing): the CPU *)
(* processor and the GPU processor, with a reader of command buffers the   *)
(* properties of their output are stated with.                             *)
(***************************************************************************)
EXTENDS Integers, Sequences, FiniteSets, TLC

(***************************************************************************)
(* Bounds of the model.                                                    *)
(***************************************************************************)
\* Spec, the engine with several connections:
\* the most sockets the environment lets setup open (reused + fresh)
MaxConns == 2
\* SpecConn, one connection followed in detail:
\* the longest command buffer a source returns, in bytes
MaxBufLen == 3
\* the most command-buffer sources (media objects)
MaxSources == 3
\* consecutive connect failures followed in one reconnect episode
MaxReconnects == 5

(***************************************************************************)
(* Values.                                                                 *)
(***************************************************************************)
\* Option<T>: None is the empty set, Some(x) the singleton {x}
None == {}
Some(x) == {x}
\* no connection: the absent predecessor of an unlinked submission
NoConn == 0 - 1
\* errno values the kernel reports (negated in a completion's result)
Errno == [ECONNRESET |-> 104, ECONNREFUSED |-> 111, ETIME |-> 62, ECANCELED |-> 125]

Min(a, b) == IF a <= b THEN a ELSE b

\* enum DrawStrategy
Random == [tag |-> "Random"]
Rows(reversed) == [tag |-> "Rows", reversed |-> reversed]
Columns(reversed) == [tag |-> "Columns", reversed |-> reversed]

VARIABLES
    connection_limit,         \* FlutOp.connection_limit: None or n >= 1
    reconnect_limit,          \* FlutOp.reconnect_limit: None or n >= 0
    reconnect_backoff_limit,  \* FlutOp.reconnect_backoff_limit, seconds
    num_sources,              \* command_buffer_sources.len()
    connections,              \* FlutOp.connections
    ring,                     \* operations pushed and not yet completed
    sq_link,                  \* connection whose IO_LINK entry ends the unsubmitted queue
    phase,                    \* "new", "running", "teardown", "dropped"
    flow,                     \* what setup / the last handler returned
    last,                     \* the completion the last step handled, if it handled one
    died,                     \* per connection: times `connections -= 1` ran for it
    opened,                   \* connections collected by setup
    reconnect_cap,            \* the bound on reconnects followed in this behaviour
    buf_cap,                  \* the longest buffer a source returns in this behaviour
    avail,                    \* sockets the environment lets setup open (reused + fresh)
    leak_warned,              \* Drop logged "leaking N connections"
    frames,                   \* MediaSource.frames: the display duration of each frame
    answer,                   \* the last query of a source and the Timing it returned
    cache,                    \* ComputeOnceCache.cache: ((start, end), frame) entries
    calls,                    \* invocations of the inner source of a cache so far
    single,                   \* SingleFrameCache.cache: None or (valid_until, frame_time, frame)
    now,                      \* the wall clock (Instant::now())
    invoked,                  \* when the inner source last answered a SingleFrameCache, and time_left
    size,                     \* draw_order's argument (W, H)
    strategy,                 \* the DrawStrategy draw_order is called on
    order,                    \* None, or the Vec draw_order returned
    text,                     \* a draw-strategy string: given to from_str, or made by Display
    parsed,                   \* None, or what DrawStrategy::from_str returned
    offset,                   \* the processor's offset (x, y)
    canvas_size,              \* the processor's canvas_size (W, H)
    processor,                \* None, or the FrameProcessor built
    pixels,                   \* None, or the Frame given to process
    output,                   \* None, or what process returned
    stream,                   \* the TcpStream of the handshake: what the peer still sends
    response,                 \* get_size: `res`, the reply accumulated so far
    handshake,                \* None, or what get_size returned
    inputs,                   \* the iterators BreadthFlatten::new was given
    iterators,                \* BreadthFlatten.iterators, front first
    taken                     \* the calls of next() so far: who was polled, what was returned

\* the frame sources, the caches and the draw order: the engine leaves them alone
\* the wall clock and what lives by it
clockvars == <<single, now, invoked>>

\* the arguments and the result of draw_order
drawvars == <<size, strategy, order>>

\* the draw-strategy string and its parse
clivars == <<text, parsed>>

\* a frame processor, the frame it is given and the command buffer it makes
procvars == <<offset, canvas_size, processor, pixels, output>>

\* the SIZE handshake
sizevars == <<stream, response, handshake>>

\* BreadthFlatten and the record of its calls
flatvars == <<inputs, iterators, taken>>

\* what happens before the engine is built: parsing, processing, the handshake,
\* the choice of connections
iovars == <<clivars, procvars, sizevars, flatvars>>

srcvars == <<frames, answer, cache, calls, clockvars, drawvars, iovars>>

\* the engine's own variables: the sources leave them alone
engvars == <<connection_limit, reconnect_limit, reconnect_backoff_limit, num_sources,
             connections, ring, sq_link, phase, flow, last, died, opened,
             reconnect_cap, buf_cap, avail, leak_warned>>

cfgvars == <<connection_limit, reconnect_limit, reconnect_backoff_limit,
             num_sources, reconnect_cap, buf_cap, avail, srcvars>>
vars == <<engvars, srcvars>>


(***************************************************************************)
(* Submission-queue entries (opcode::Write / Timeout / Connect) and the    *)
(* ring data that travels with them (FlutOpData).                          *)
(***************************************************************************)
\* the peers of the target list, by address family
Targets == <<"V4", "V6">>

\* the peer address of the i-th connection setup collects (round robin over targets)
PeerOf(i) == [target |-> (i % Len(Targets)) + 1, family |-> Targets[(i % Len(Targets)) + 1]]

\* Socket::new(domain, STREAM, TCP) for the address family of addr, held by connection
\* id; descriptor numbers are not modelled, a socket is told apart by its owner
NewSocket(id, addr) == [owner |-> id, domain |-> IF addr.family = "V4" THEN "IPV4" ELSE "IPV6"]

WriteSqe(socket, frame, off, count) ==
    [op |-> "write", fd |-> socket, frame |-> frame, off |-> off, count |-> count,
     link |-> FALSE]

TimeoutSqe(secs, link) == [op |-> "timeout", secs |-> secs, link |-> link]

ConnectSqe(socket, addr) == [op |-> "connect", fd |-> socket, addr |-> addr, link |-> FALSE]

ConnectionEstablished(id, socket, addr, source_index, frame, written) ==
    [tag |-> "ConnectionEstablished", connection_id |-> id, socket |-> socket,
     addr |-> addr, source_index |-> source_index,
     last_buffer |-> [frame |-> frame, written |-> written]]

\* a reconnect attempt counted one too high
Reconnecting_CountsAhead(id, socket, addr, source_index, backoff, reconnects) ==
    [tag |-> "Reconnecting", connection_id |-> id, socket |-> socket, addr |-> addr,
     source_index |-> source_index, backoff |-> backoff, reconnects |-> reconnects + 1]

Reconnecting(id, socket, addr, source_index, backoff, reconnects) ==
    [tag |-> "Reconnecting", connection_id |-> id, socket |-> socket, addr |-> addr,
     source_index |-> source_index, backoff |-> backoff, reconnects |-> reconnects]

Backoff(entry, data) == [tag |-> "Backoff", entry |-> entry, data |-> data]

\* the connection a ring data belongs to
ConnOf(data) == IF data.tag = "Backoff" THEN data.data.connection_id ELSE data.connection_id

\* a buffer a source returns: which source made it and how many bytes it holds
Frame(src, len) == [src |-> src, len |-> len]


(***************************************************************************)
(* The decisions on_completion takes, as the code computes them.           *)
(***************************************************************************)
\* Duration::from_secs(1): the backoff a write failure starts with
InitialBackoff == 1

\* ConnectionEstablished, result <= 0: `if let Some(limit) = .. { if limit == 0 {`
WriteFailureKills(limit_opt) == \E limit \in limit_opt : limit = 0

\* Reconnecting, result < 0: `if let Some(limit) = .. { if limit >= reconnects {`
ConnectFailureKills(limit_opt, reconnects) == \E limit \in limit_opt : limit >= reconnects

\* Reconnecting, result < 0: the next backoff, doubled and clamped
NextBackoff(backoff, limit_opt) ==
    IF limit_opt = None THEN backoff * 2
    ELSE LET limit == CHOOSE l \in limit_opt : TRUE IN Min(backoff * 2, limit)

\* the full-write arm taken for every positive result
IsFullWrite_AnyProgress(written, n, len) == n > 0

\* the match guard of the full-write arm: written + n as usize == last_buffer.0.len()
IsFullWrite(written, n, len) == written + n = len

\* source_index advanced without the modulo
NextSourceIndex_NoWrap(source_index, n) == source_index + 1

\* (source_index + 1) % self.command_buffer_sources.len()
NextSourceIndex(source_index, n) == (source_index + 1) % n

\* setup: the source the i-th connection takes its first buffer from
InitialSource(i, n) == i % n

\* a first write that takes the buffer up one byte in
FreshWrite_Resumed(id, socket, addr, source_index, frame) ==
    [sqe  |-> WriteSqe(socket, frame, Min(1, frame.len), frame.len - Min(1, frame.len)),
     data |-> ConnectionEstablished(id, socket, addr,
                                    NextSourceIndex(source_index, num_sources), frame,
                                    Min(1, frame.len))]

\* the write of a whole freshly fetched buffer and its ring data
FreshWrite(id, socket, addr, source_index, frame) ==
    [sqe  |-> WriteSqe(socket, frame, 0, frame.len),
     data |-> ConnectionEstablished(id, socket, addr,
                                    NextSourceIndex(source_index, num_sources), frame, 0)]

\* the partial-write arm with a count that forgets the n bytes just written
ResumeWrite_StaleCount(d, n) ==
    LET frame   == d.last_buffer.frame
        written == d.last_buffer.written
    IN [sqe  |-> WriteSqe(d.socket, frame, written + n, frame.len - written),
        data |-> ConnectionEstablished(d.connection_id, d.socket, d.addr,
                                       d.source_index, frame, written + n)]

\* a partial-write arm that writes the rest again from the cursor it had
ResumeWrite_SameCursor(d, n) ==
    LET frame   == d.last_buffer.frame
        written == d.last_buffer.written
    IN [sqe  |-> WriteSqe(d.socket, frame, written, frame.len - written),
        data |-> ConnectionEstablished(d.connection_id, d.socket, d.addr,
                                       d.source_index, frame, written)]

\* the partial-write arm: the write of the rest of last_buffer and its ring data
ResumeWrite(d, n) ==
    LET frame   == d.last_buffer.frame
        written == d.last_buffer.written
    IN [sqe  |-> WriteSqe(d.socket, frame, written + n, (frame.len - written) - n),
        data |-> ConnectionEstablished(d.connection_id, d.socket, d.addr,
                                       d.source_index, frame, written + n)]

\* a reconnect attempt whose connect is submitted at once, without the timeout
BackoffTimeout_ConnectNow(id, socket, addr, source_index, backoff, reconnects, link) ==
    [sqe  |-> ConnectSqe(socket, addr),
     data |-> Reconnecting(id, socket, addr, source_index, backoff, reconnects)]

\* the timeout that carries the connect of a reconnect attempt, and its ring data
BackoffTimeout(id, socket, addr, source_index, backoff, reconnects, link) ==
    [sqe  |-> TimeoutSqe(backoff, link),
     data |-> Backoff(ConnectSqe(socket, addr),
                      Reconnecting(id, socket, addr, source_index, backoff, reconnects))]

(***************************************************************************)
(* The ring: entries pushed by the engine, submitted to the kernel in      *)
(* batches, completed one at a time.  An entry pushed right after an       *)
(* unsubmitted IO_LINK entry is linked to it: it starts when that entry    *)
(* completes and is cancelled when that entry fails (an expired timeout    *)
(* completes with -ETIME, which severs the link).  Only a chain of IO_LINK *)
(* entries at the tail of the submission queue is kept unsubmitted: an     *)
(* entry that links nothing behaves the same whenever its batch is         *)
(* submitted, since a completion may take arbitrarily long anyway.         *)
(***************************************************************************)
\* what a dead stack slot can hold in place of a timespec (seconds) or an address
StaleTimespecs == {16}
StaleAddr == [target |-> 0, family |-> "stale"]

\* The entry as the kernel reads it.  A write points into the Rc<[u8]> the ring
\* data keeps alive.  A timeout points at `backoff_timespec` and a connect at
\* `addr`, both locals of the on_completion call that built the entry: the ring
\* data receives copies of them at other addresses, and the kernel follows the
\* pointers after that call has returned (the connect is not even pushed before a
\* later call), so it reads the value written there or whatever replaced it.
KernelReads(sqe) ==
    CASE sqe.op = "timeout" -> {[sqe EXCEPT !.secs = s] : s \in {sqe.secs} \cup StaleTimespecs}
      [] sqe.op = "connect" -> {[sqe EXCEPT !.addr = a] : a \in {sqe.addr, StaleAddr}}
      [] OTHER              -> {sqe}

\* submitter.push(entry, data) onto ring r, and the submit that follows a push
\* which leaves no link open
Push(r, x) ==
    LET pushed == r \cup {[sqe |-> x.sqe, data |-> x.data, stage |-> "sq",
                            after |-> sq_link, cancelled |-> FALSE]}
    IN IF x.sqe.link THEN pushed ELSE {[y EXCEPT !.stage = "kernel"] : y \in pushed}

\* the link state of the unsubmitted queue after pushing x
LinkAfterPush(x) == IF x.sqe.link THEN ConnOf(x.data) ELSE NoConn

\* a completion that leaves the completed entry in the ring
Reap_KeepEntry(r, e, res) ==
    {IF x.after = ConnOf(e.data) /\ e.sqe.link
        THEN [x EXCEPT !.after = NoConn, !.cancelled = (res < 0)]
        ELSE x : x \in r}

\* the kernel reaps entry e with result res: what is linked to e is released
Reap(r, e, res) ==
    {IF x.after = ConnOf(e.data) /\ e.sqe.link
        THEN [x EXCEPT !.after = NoConn, !.cancelled = (res < 0)]
        ELSE x : x \in r \ {e}}

\* the results the kernel can report for entry e
Results(e) ==
    IF e.cancelled THEN {0 - Errno.ECANCELED}
    ELSE CASE e.sqe.op = "write"   -> {0 - Errno.ECONNRESET} \cup
                                       (IF e.sqe.count = 0 THEN {0} ELSE 1 .. e.sqe.count)
           [] e.sqe.op = "connect" -> {0 - Errno.ECONNREFUSED, 0}
           [] e.sqe.op = "timeout" -> {0 - Errno.ETIME}

\* entry e can complete: it was submitted and waits for no linked predecessor
Completable(e) == e.stage = "kernel" /\ e.after = NoConn

\* usize `connections -= 1`; a negative value -k stands for the wrapped 2^64 - k
Decrement(c) == c - 1


(***************************************************************************)
(* FlutOp::new and RingOperation::setup.                                   *)
(***************************************************************************)
\* no completion handled yet
NoCompletion == [conn |-> NoConn, result |-> 0]

\* the completion of entry e with completion_entry.result() = res
Completion(e, res) == [conn |-> ConnOf(e.data), result |-> res]

\* lengths of the buffers a source can return (0: every pixel outside the canvas)
BufLens == 0 .. buf_cap

\* connection_limit: unset, or one less than the environment offers
ConnectionLimits == {None, Some(MaxConns - 1)}

\* reconnect_limit: unset, 0 (FlutOp::new takes any usize), or n >= 1
ReconnectLimits == {None, Some(0), Some(1), Some(2)}


\* FlutOp::new with the given arguments: no connection yet, nothing in flight
InitWith(climits, rlimits, blimits, nsources, cap, buflen, avails) ==
    /\ connection_limit \in climits
    /\ reconnect_limit \in rlimits
    /\ reconnect_backoff_limit \in blimits
    /\ num_sources \in nsources
    /\ reconnect_cap = cap
    /\ buf_cap = buflen
    /\ avail \in avails
    /\ connections = 0
    /\ ring = {}
    /\ sq_link = NoConn
    /\ phase = "new"
    /\ flow = "None"
    /\ last = NoCompletion
    /\ died = [i \in 0 .. avail - 1 |-> 0]
    /\ opened = 0
    /\ leak_warned = FALSE

\* no draw-strategy string parsed or made
CliIdle ==
    /\ text = ""
    /\ parsed = None

\* no processor built, no frame processed
ProcIdle ==
    /\ offset = <<0, 0>>
    /\ canvas_size = <<0, 0>>
    /\ processor = None
    /\ pixels = None
    /\ output = None

\* no handshake begun
SizeIdle ==
    /\ stream = <<>>
    /\ response = <<>>
    /\ handshake = None

\* no BreadthFlatten built
FlatIdle ==
    /\ inputs = <<>>
    /\ iterators = <<>>
    /\ taken = <<>>

\* nothing parsed, no processor built, no handshake begun, no BreadthFlatten
IoIdle == CliIdle /\ ProcIdle /\ SizeIdle /\ FlatIdle

\* no source built or queried
MediaIdle ==
    /\ frames = <<>>
    /\ answer = None
    /\ cache = <<>>
    /\ calls = 0
    /\ single = None
    /\ now = 0
    /\ invoked = None

\* no source has been built or queried, no draw order computed
SourcesIdle ==
    /\ frames = <<>>
    /\ answer = None
    /\ cache = <<>>
    /\ calls = 0
    /\ single = None
    /\ now = 0
    /\ invoked = None
    /\ size = <<0, 0>>
    /\ strategy = Rows(FALSE)
    /\ order = None
    /\ IoIdle

\* Spec: up to MaxConns connections over two sources, with a reconnect limit of
\* 0 or 1.  What one connection does on its own (no limit, more sources, longer
\* buffers, longer reconnect episodes) is followed in SpecConn; here buffers hold
\* at most two bytes and an episode is followed up to its first failed connect.
Init ==
    /\ InitWith(ConnectionLimits, {Some(0), Some(1)}, {Some(2)}, {2}, 1, 2, 0 .. MaxConns)
    /\ SourcesIdle

\* reconnect_backoff_limit: unset, or whole seconds >= 1 (the CLI takes a NonZeroU64)
BackoffLimits == {None, Some(1), Some(8)}

\* SpecConn: one connection (the handshake socket alone, or connection_limit = 1)
InitConn ==
    /\ InitWith({None, Some(1)}, ReconnectLimits, BackoffLimits, 1 .. MaxSources,
                MaxReconnects, MaxBufLen, {1})
    /\ SourcesIdle

\* SpecRetry: two connections over one source with a reconnect limit of 1 or 2,
\* each reconnect episode followed up to its third failed connect
InitRetry ==
    /\ InitWith({None}, {Some(1), Some(2)}, {Some(2)}, {1}, 3, 2, {2})
    /\ SourcesIdle

\* the engine not yet set up, as it is while the sources alone are exercised
EngineIdle == InitWith({None}, {None}, {None}, {1}, 0, 0, {0})

\* setup without `take(limit)`: every socket on offer is collected
Collected_All(limit_opt, offered) == offered

\* `connections.take(limit)`: how many of the sockets on offer setup collects
Collected(limit_opt, offered) ==
    IF limit_opt = None THEN offered
    ELSE LET limit == CHOOSE l \in limit_opt : TRUE IN Min(limit, offered)

\* the entries the setup loop has pushed after k iterations, lens[i] the length of
\* the buffer sources[i % |sources|] returned for connection i
SetupPushed(k, lens) ==
    {[sqe |-> x.sqe, data |-> x.data, stage |-> "kernel", after |-> NoConn, cancelled |-> FALSE] :
        x \in {FreshWrite(i, NewSocket(i, PeerOf(i)), PeerOf(i),
                          InitialSource(i, num_sources),
                          Frame(InitialSource(i, num_sources), lens[i])) : i \in 0 .. k - 1}}

\* setup returns Ok(()): every collected connection has its first write pushed
SetupOk ==
    /\ phase = "new"
    /\ LET n == Collected(connection_limit, avail) IN
        \E lens \in [0 .. n - 1 -> BufLens] :
            /\ opened' = n
            /\ ring' = SetupPushed(n, lens)
            /\ connections' = n
    /\ phase' = "running"
    /\ flow' = "Ok"
    /\ UNCHANGED <<cfgvars, sq_link, last, died, leak_warned>>

\* setup returns Err in iteration k: the source failed (SetupError::Any) or the
\* push failed (SetupError::SqeSubmission); k writes are pushed and counted
SetupErr ==
    /\ phase = "new"
    /\ LET n == Collected(connection_limit, avail) IN
        \E k \in 0 .. n - 1 : \E lens \in [0 .. k - 1 -> BufLens] :
            /\ opened' = n
            /\ ring' = SetupPushed(k, lens)
            /\ connections' = k
    /\ phase' = "teardown"
    /\ flow' \in {"SetupError::Any", "SetupError::SqeSubmission"}
    /\ UNCHANGED <<cfgvars, sq_link, last, died, leak_warned>>

(***************************************************************************)
(* The ring's loop: it submits what was pushed and hands each completion   *)
(* to on_completion.                                                       *)
(***************************************************************************)
\* io_uring submit: every pushed entry reaches the kernel; a link ends with the batch
Submit ==
    /\ phase = "running"
    /\ sq_link /= NoConn
    /\ ring' = {[x EXCEPT !.stage = "kernel"] : x \in ring}
    /\ sq_link' = NoConn
    /\ last' = NoCompletion
    /\ UNCHANGED <<cfgvars, connections, phase, flow, died, opened, leak_warned>>

\* the handler returned ControlFlow::Continue after pushing x for the reaped entry e
Continue(e, res, x, count) ==
    /\ \E k \in KernelReads(x.sqe) : ring' = Push(Reap(ring, e, res), [x EXCEPT !.sqe = k])
    /\ sq_link' = LinkAfterPush(x)
    /\ connections' = count
    /\ flow' = "Continue"
    /\ last' = Completion(e, res)
    /\ UNCHANGED <<cfgvars, phase, opened, leak_warned>>

\* a handler that gives up the connection's count whenever it stops
Stop_Decrements(e, res, how, count) ==
    /\ ring' = Reap(ring, e, res)
    /\ sq_link' = sq_link
    /\ connections' = Decrement(count)
    /\ flow' = how
    /\ phase' = "teardown"
    /\ last' = Completion(e, res)
    /\ UNCHANGED <<cfgvars, opened, leak_warned>>

\* the handler returned Exit or an Error without pushing: the ring tears down
Stop(e, res, how, count) ==
    /\ ring' = Reap(ring, e, res)
    /\ sq_link' = sq_link
    /\ connections' = count
    /\ flow' = how
    /\ phase' = "teardown"
    /\ last' = Completion(e, res)
    /\ UNCHANGED <<cfgvars, opened, leak_warned>>


(***************************************************************************)
(* RingOperation::on_completion, one action per arm.                       *)
(***************************************************************************)
\* `self.connections -= 1` ran for connection id
CountDeath(id) == died' = [died EXCEPT ![id] = @ + 1]

\* ConnectionEstablished, result <= 0: the connection closed or failed
WriteFailed(e, res) ==
    /\ e.data.tag = "ConnectionEstablished"
    /\ res <= 0
    /\ LET d     == e.data
           kills == WriteFailureKills(reconnect_limit)
           count == IF kills THEN Decrement(connections) ELSE connections
       IN /\ IF kills THEN CountDeath(d.connection_id) ELSE died' = died
          /\ IF kills /\ count = 0
                THEN Stop(e, res, "Exit", count)
                ELSE \/ Stop(e, res, "Error::Io", count)
                     \/ Stop(e, res, "Error::SqeSubmission", count)
                     \/ Continue(e, res,
                                 BackoffTimeout(d.connection_id,
                                                NewSocket(d.connection_id, d.addr),
                                                d.addr, d.source_index,
                                                InitialBackoff, 1, TRUE),
                                 count)

\* ConnectionEstablished, written + n == len: the buffer is out, fetch the next
WriteFull(e, res) ==
    /\ e.data.tag = "ConnectionEstablished"
    /\ res > 0
    /\ IsFullWrite(e.data.last_buffer.written, res, e.data.last_buffer.frame.len)
    /\ died' = died
    /\ LET d == e.data
       IN \/ Stop(e, res, "Error::Any", connections)
          \/ Stop(e, res, "Error::SqeSubmission", connections)
          \/ \E len \in BufLens :
                Continue(e, res,
                         FreshWrite(d.connection_id, d.socket, d.addr, d.source_index,
                                    Frame(d.source_index, len)),
                         connections)

\* ConnectionEstablished, 0 < n, written + n /= len: write the rest
WritePartial(e, res) ==
    /\ e.data.tag = "ConnectionEstablished"
    /\ res > 0
    /\ ~IsFullWrite(e.data.last_buffer.written, res, e.data.last_buffer.frame.len)
    /\ died' = died
    /\ \/ Stop(e, res, "Error::SqeSubmission", connections)
       \/ Continue(e, res, ResumeWrite(e.data, res), connections)

\* Reconnecting, result < 0: the connect failed
ConnectFailed(e, res) ==
    /\ e.data.tag = "Reconnecting"
    /\ res < 0
    /\ LET d     == e.data
           kills == ConnectFailureKills(reconnect_limit, d.reconnects)
           count == IF kills THEN Decrement(connections) ELSE connections
       IN /\ IF kills THEN CountDeath(d.connection_id) ELSE died' = died
          /\ IF kills /\ count = 0
                THEN Stop(e, res, "Exit", count)
                ELSE \/ Stop(e, res, "Error::SqeSubmission", count)
                     \/ /\ d.reconnects < reconnect_cap
                        /\ Continue(e, res,
                                    BackoffTimeout(d.connection_id, d.socket, d.addr,
                                                   d.source_index,
                                                   NextBackoff(d.backoff,
                                                               reconnect_backoff_limit),
                                                   d.reconnects + 1, FALSE),
                                    count)

\* Reconnecting, result = 0: connected, fetch a buffer and write it
ConnectOk(e, res) ==
    /\ e.data.tag = "Reconnecting"
    /\ res = 0
    /\ died' = died
    /\ LET d == e.data
       IN \/ Stop(e, res, "Error::Any", connections)
          \/ Stop(e, res, "Error::SqeSubmission", connections)
          \/ \E len \in BufLens :
                Continue(e, res,
                         FreshWrite(d.connection_id, d.socket, d.addr, d.source_index,
                                    Frame(d.source_index, len)),
                         connections)

\* Backoff(entry, data): the timer completed, submit the carried operation
BackoffDone(e, res) ==
    /\ e.data.tag = "Backoff"
    /\ died' = died
    /\ \/ Stop(e, res, "Error::SqeSubmission", connections)
       \/ Continue(e, res, [sqe |-> e.data.entry, data |-> e.data.data], connections)

\* the ring reaps one completion and calls on_completion with its ring data
OnWriteFailed ==
    phase = "running" /\ \E e \in ring : Completable(e) /\ \E res \in Results(e) : WriteFailed(e, res)

OnWriteFull ==
    phase = "running" /\ \E e \in ring : Completable(e) /\ \E res \in Results(e) : WriteFull(e, res)

OnWritePartial ==
    phase = "running" /\ \E e \in ring : Completable(e) /\ \E res \in Results(e) : WritePartial(e, res)

OnConnectFailed ==
    phase = "running" /\ \E e \in ring : Completable(e) /\ \E res \in Results(e) : ConnectFailed(e, res)

OnConnectOk ==
    phase = "running" /\ \E e \in ring : Completable(e) /\ \E res \in Results(e) : ConnectOk(e, res)

OnBackoffDone ==
    phase = "running" /\ \E e \in ring : Completable(e) /\ \E res \in Results(e) : BackoffDone(e, res)

OnCompletion ==
    \/ OnWriteFailed
    \/ OnWriteFull
    \/ OnWritePartial
    \/ OnConnectFailed
    \/ OnConnectOk
    \/ OnBackoffDone

(***************************************************************************)
(* RingOperation::on_teardown_completion and Drop.                         *)
(***************************************************************************)
\* every ring data variant: self.connections -= 1
OnTeardownCompletion ==
    /\ phase = "teardown"
    /\ \E e \in ring : ring' = ring \ {e}
    /\ \/ /\ connections /= 0
          /\ connections' = Decrement(connections)
          /\ phase' = phase
       \/ /\ connections = 0           \* release build: the subtraction wraps
          /\ connections' = Decrement(connections)
          /\ phase' = phase
       \/ /\ connections = 0           \* debug build: the subtraction panics
          /\ connections' = connections
          /\ phase' = "panicked"
    /\ UNCHANGED <<cfgvars, sq_link, flow, last, died, opened, leak_warned>>

\* impl Drop for FlutOp: warn when the counter is not zero
Drop ==
    /\ phase = "teardown"
    /\ ring = {}
    /\ phase' = "dropped"
    /\ leak_warned' = (connections /= 0)
    /\ UNCHANGED <<cfgvars, connections, ring, sq_link, flow, last, died, opened>>

Next ==
    \/ SetupOk
    \/ SetupErr
    \/ Submit
    \/ OnWriteFailed
    \/ OnWriteFull
    \/ OnWritePartial
    \/ OnConnectFailed
    \/ OnConnectOk
    \/ OnBackoffDone
    \/ OnTeardownCompletion
    \/ Drop

\* the engine with up to MaxConns connections
Spec == Init /\ [][Next]_vars

\* two connections, followed through reconnect episodes that outlast the limit
SpecRetry == InitRetry /\ [][Next]_vars

\* with one connection nothing is in flight when the ring tears down
NextConn ==
    \/ SetupOk
    \/ SetupErr
    \/ Submit
    \/ OnWriteFailed
    \/ OnWriteFull
    \/ OnWritePartial
    \/ OnConnectFailed
    \/ OnConnectOk
    \/ OnBackoffDone
    \/ Drop

\* one connection, followed through long buffers and long reconnect episodes
SpecConn == InitConn /\ [][NextConn]_vars


(***************************************************************************)
(* Properties of the connection engine.                                    *)
(***************************************************************************)
\* the connections setup collected
Conns == 0 .. opened - 1

\* the operations in flight for connection c
EntriesOf(r, c) == {x \in r : ConnOf(x.data) = c}

\* C1: while the engine runs, every connection that was not counted dead has
\* exactly one operation in flight (a write, a connect or a backoff timer), and no
\* connection ever has two.
C1_OneOperationPerConnection ==
    /\ \A x \in ring : ConnOf(x.data) \in Conns
    /\ \A c \in Conns :
        /\ Cardinality(EntriesOf(ring, c)) <= 1
        /\ (phase = "running" /\ died[c] = 0) => Cardinality(EntriesOf(ring, c)) = 1

\* C1 witness: two connections, one writing and one waiting in its backoff, after
\* a write failure and a completed write
C1_Witness ==
    /\ phase = "running"
    /\ opened = 2
    /\ \E x \in EntriesOf(ring, 0) : x.data.tag = "Backoff"
    /\ \E y \in EntriesOf(ring, 1) : y.data.tag = "ConnectionEstablished" /\ y.sqe.off = 1

\* C2: the `connections` counter equals the number of connections that have an
\* operation in flight, for every reconnect_limit.
C2_CounterMatchesOwned ==
    phase = "running" =>
        connections = Cardinality({c \in Conns : EntriesOf(ring, c) /= {}})

\* C3: connections are independent: a failure of one connection never makes the
\* engine stop serving another whose own operations succeed.  So the engine does
\* not exit while a connection that never failed has a write of a non-empty
\* buffer in flight, neither cancelled nor held back by another entry.
C3_ExitLeavesNoWriter ==
    flow = "Exit" =>
        \A x \in ring :
            ~ /\ x.data.tag = "ConnectionEstablished"
              /\ died[ConnOf(x.data)] = 0
              /\ x.sqe.count > 0
              /\ x.after = NoConn
              /\ ~x.cancelled

\* C10: when setup has returned Ok, the operations in flight are as many as
\* `connections` and as the connections opened, at most connection_limit; each
\* is a write of a whole buffer tagged ConnectionEstablished with cursor 0, and
\* the connection ids are exactly 0 .. n-1.
C10_AfterSetup ==
    flow = "Ok" =>
        /\ Cardinality(ring) = connections
        /\ connections = opened
        /\ \A limit \in connection_limit : opened <= limit
        /\ {ConnOf(x.data) : x \in ring} = 0 .. opened - 1
        /\ \A x \in ring :
            /\ x.sqe.op = "write"
            /\ x.data.tag = "ConnectionEstablished"
            /\ x.data.last_buffer.written = 0
            /\ x.sqe.off = 0
            /\ x.sqe.count = x.data.last_buffer.frame.len

\* C10 witness: setup returned Ok with the limit cutting the offered sockets short
C10_Witness ==
    /\ flow = "Ok"
    /\ connection_limit = Some(1)
    /\ avail = 2
    /\ Cardinality(ring) = 1


\* the step handles the completion of entry x of the running engine
Handled(x) ==
    /\ phase = "running"
    /\ x \in ring
    /\ Completable(x)
    /\ last' /= NoCompletion
    /\ last'.conn = ConnOf(x.data)

\* the ring data proper of a ring data: what a Backoff carries, or the data itself
Inner(data) == IF data.tag = "Backoff" THEN data.data ELSE data

\* C4: with reconnect_limit = L >= 1, a connection is counted dead only by a
\* failed connect that was at least its L-th attempt of the episode.
C4_DeadOnlyAfterLimit ==
    [][\A x \in ring : \A limit \in reconnect_limit :
          (Handled(x) /\ limit >= 1 /\ died'[ConnOf(x.data)] > died[ConnOf(x.data)])
              => /\ x.data.tag = "Reconnecting"
                 /\ last'.result < 0
                 /\ x.data.reconnects >= limit]_vars

\* C5: a write completion that reports n > 0 with written + n < len is followed,
\* for that connection, by exactly one write of the len - written - n bytes at
\* offset written + n of the same buffer on the same socket; the cursor becomes
\* written + n; connection id, socket, peer address and source_index stay.
C5_PartialWriteRecovery ==
    [][\A x \in ring :
          LET d       == x.data
              n       == last'.result
              id      == ConnOf(d)
              written == d.last_buffer.written
              len     == d.last_buffer.frame.len
          IN (/\ Handled(x)
              /\ flow' = "Continue"
              /\ d.tag = "ConnectionEstablished"
              /\ n > 0
              /\ written + n < len)
             => \E y \in ring' :
                  /\ EntriesOf(ring', id) = {y}
                  /\ y.sqe.op = "write"
                  /\ y.sqe.fd = d.socket
                  /\ y.sqe.frame = d.last_buffer.frame
                  /\ y.sqe.off = written + n
                  /\ y.sqe.count = len - written - n
                  /\ y.data.tag = "ConnectionEstablished"
                  /\ y.data.last_buffer.frame = d.last_buffer.frame
                  /\ y.data.last_buffer.written = written + n
                  /\ y.data.connection_id = d.connection_id
                  /\ y.data.socket = d.socket
                  /\ y.data.addr = d.addr
                  /\ y.data.source_index = d.source_index]_vars

\* C5 witness: a second partial write of a three-byte buffer was resumed at offset 2
C5_Witness ==
    /\ last.result = 1
    /\ flow = "Continue"
    /\ \E y \in ring :
        /\ y.data.tag = "ConnectionEstablished"
        /\ last.conn = y.data.connection_id
        /\ y.data.last_buffer.frame.len = 3
        /\ y.data.last_buffer.written = 2
        /\ y.sqe.off = 2
        /\ y.sqe.count = 1

\* C6: every write in flight covers the still unwritten tail [written, len) of the
\* connection's buffer; a completion of n bytes (n at most the bytes asked for) is
\* followed by the write of the rest of the same buffer from offset off + n, and a
\* write of a fresh buffer (offset 0) only when written + n = len, that is when the
\* whole previous buffer was reported written.
C6_BuffersInOrder ==
    [][/\ \A y \in ring' :
            y.sqe.op = "write" =>
                /\ y.data.tag = "ConnectionEstablished"
                /\ y.sqe.frame = y.data.last_buffer.frame
                /\ y.sqe.off = y.data.last_buffer.written
                /\ y.sqe.off + y.sqe.count = y.sqe.frame.len
       /\ \A x \in ring :
            (Handled(x) /\ x.sqe.op = "write" /\ flow' = "Continue" /\ last'.result > 0)
                => \E y \in ring' :
                     /\ EntriesOf(ring', ConnOf(x.data)) = {y}
                     /\ y.sqe.op = "write"
                     /\ last'.result <= x.sqe.count
                     /\ \/ /\ y.sqe.off = 0
                           /\ x.sqe.off + last'.result = x.sqe.frame.len
                        \/ /\ y.sqe.off = x.sqe.off + last'.result
                           /\ y.sqe.off < x.sqe.frame.len
                           /\ y.sqe.frame = x.sqe.frame]_vars

\* C6 witness: a three-byte buffer went out in two pieces and the next buffer follows
C6_Witness ==
    /\ last.result = 2
    /\ flow = "Continue"
    /\ \E y \in ring :
        /\ y.data.tag = "ConnectionEstablished"
        /\ last.conn = y.data.connection_id
        /\ y.sqe.off = 0
        /\ y.sqe.frame.src = 1
        /\ y.data.source_index = 2

\* 2^k
RECURSIVE Pow2(_)
Pow2(k) == IF k = 0 THEN 1 ELSE 2 * Pow2(k - 1)

\* C7: the k-th timeout scheduled in a reconnect episode (the one that carries the
\* connect with reconnects = k) lasts min(2^(k-1) s, reconnect_backoff_limit), or
\* 2^(k-1) s when no limit is set, and never exceeds the limit: this holds of the
\* backoff the engine records and of the duration the timer is armed with.
C7_BackoffSchedule ==
    \A x \in ring :
        x.data.tag \in {"Backoff", "Reconnecting"} =>
            LET r == Inner(x.data) IN
            /\ r.reconnects >= 1
            /\ x.data.tag = "Backoff" => x.sqe.op = "timeout" /\ x.sqe.secs = r.backoff
            /\ reconnect_backoff_limit = None => r.backoff = Pow2(r.reconnects - 1)
            /\ \A limit \in reconnect_backoff_limit :
                /\ r.backoff = Min(Pow2(r.reconnects - 1), limit)
                /\ r.backoff <= limit

\* C7 case: with a limit of 8 s the fifth timeout of an episode is armed with 8 s
C7_Witness ==
    /\ reconnect_backoff_limit = Some(8)
    /\ reconnect_limit = None
    /\ \E x \in ring :
        /\ x.data.tag = "Backoff"
        /\ x.data.data.reconnects = 5
        /\ x.sqe.secs = 8

\* C8: a ConnectionEstablished cursor (buffer, written) always has written < len.
C8_CursorInsideBuffer ==
    \A x \in ring :
        x.data.tag = "ConnectionEstablished" =>
            x.data.last_buffer.written < x.data.last_buffer.frame.len

\* C9: source_index of every connection is in [0, |sources|); connection i takes
\* its first buffer from sources[i mod |sources|]; a buffer fetch (after a full
\* write or a successful connect) reads sources[source_index] and advances
\* source_index to (source_index + 1) mod |sources|; every other completion
\* leaves source_index as it was.
C9_RoundRobinSources ==
    [][/\ \A y \in ring' :
            /\ Inner(y.data).source_index \in 0 .. num_sources - 1
            /\ y.sqe.op = "write" => y.sqe.frame.src \in 0 .. num_sources - 1
       /\ (phase = "new" /\ phase' = "running") =>
            \A y \in ring' :
                /\ y.sqe.frame.src = ConnOf(y.data) % num_sources
                /\ y.data.source_index = (ConnOf(y.data) + 1) % num_sources
       /\ \A x \in ring :
            (Handled(x) /\ flow' = "Continue") =>
                \E y \in ring' :
                    LET old     == Inner(x.data).source_index
                        fetched == \/ /\ x.sqe.op = "write"
                                      /\ last'.result > 0
                                      /\ x.sqe.off + last'.result = x.sqe.frame.len
                                   \/ /\ x.sqe.op = "connect"
                                      /\ last'.result = 0
                    IN /\ EntriesOf(ring', ConnOf(x.data)) = {y}
                       /\ fetched => /\ y.sqe.op = "write"
                                     /\ y.sqe.off = 0
                                     /\ y.sqe.frame.src = old
                                     /\ Inner(y.data).source_index = (old + 1) % num_sources
                       /\ ~fetched => Inner(y.data).source_index = old]_vars

\* C9 witness: with two sources connection 1, which started on sources[1], has
\* finished a buffer, fetched from sources[0] and moved on to source_index 1
C9_Witness ==
    /\ num_sources = 2
    /\ flow = "Continue"
    /\ last.conn = 1
    /\ last.result > 0
    /\ \E y \in ring :
        /\ y.data.tag = "ConnectionEstablished"
        /\ y.data.connection_id = 1
        /\ y.sqe.off = 0
        /\ y.sqe.frame.src = 0
        /\ y.data.source_index = 1

\* C11: the engine returns Exit only when reconnect_limit is 0 and `connections`
\* has reached 0, that is only when no connection has an operation left: neither
\* a write on a working socket nor a pending reconnect (timeout or connect).
C11_ExitOnlyWhenAllGone ==
    flow = "Exit" =>
        /\ reconnect_limit = Some(0)
        /\ connections = 0
        /\ ring = {}

\* C12: teardown drains to zero: every teardown completion lowers `connections`
\* by one without passing below 0, and when the engine is dropped after the last
\* one the counter is 0 and no leak is reported.
C12_TeardownDrainsToZero ==
    /\ phase \in {"teardown", "dropped"} => connections >= 0
    /\ phase /= "panicked"
    /\ phase = "dropped" => connections = 0 /\ ~leak_warned

\* the handler returned ControlFlow::Error
ErrorFlows == {"Error::SqeSubmission", "Error::Io", "Error::Any"}

\* the completion handled fetches a buffer: a full write or a successful connect
Fetches(x, n) ==
    \/ x.sqe.op = "write" /\ n > 0 /\ x.sqe.off + n = x.sqe.frame.len
    \/ x.sqe.op = "connect" /\ n = 0

\* C13: a connect enters the ring only in the step that handles the completion of
\* the timeout carrying it, as that connection's only operation and with the
\* carried Reconnecting data; and every such completion that the handler answers
\* with Continue submits exactly that connect.
C13_ConnectAfterBackoff ==
    [][/\ \A y \in ring' :
            (y.sqe.op = "connect" /\ ~(\E z \in ring : z.data = y.data /\ z.sqe.op = "connect"))
                => \E x \in ring :
                     /\ Handled(x)
                     /\ x.sqe.op = "timeout"
                     /\ x.data.tag = "Backoff"
                     /\ y.data = x.data.data
                     /\ y.sqe \in KernelReads(x.data.entry)
       /\ \A x \in ring :
            (Handled(x) /\ x.sqe.op = "timeout" /\ flow' = "Continue")
                => \E y \in ring' :
                     /\ EntriesOf(ring', ConnOf(x.data)) = {y}
                     /\ y.sqe.op = "connect"
                     /\ y.sqe.fd = x.data.entry.fd
                     /\ y.data = x.data.data
                     /\ y.data.tag = "Reconnecting"]_vars

\* C13 witness: the third timeout of an episode has completed and its connect,
\* with reconnects = 3, is the connection's operation
C13_Witness ==
    /\ flow = "Continue"
    /\ last.result = 0 - Errno.ETIME
    /\ \E y \in ring :
        /\ y.sqe.op = "connect"
        /\ y.data.tag = "Reconnecting"
        /\ y.data.connection_id = last.conn
        /\ y.data.reconnects = 3

C28_WriteFailure ==
    [][\A x \in ring :
          (Handled(x) /\ x.data.tag = "ConnectionEstablished" /\ last'.result <= 0)
              => LET d      == x.data
                     id     == d.connection_id
                     socket == NewSocket(id, d.addr)
                 IN IF reconnect_limit = Some(0)
                       THEN /\ connections' = connections - 1
                            /\ died'[id] = died[id] + 1
                            /\ connections' = 0 => flow' = "Exit"
                            /\ EntriesOf(ring', id) = {}
                       ELSE /\ connections' = connections
                            /\ died'[id] = died[id]
                            /\ flow' = "Continue" =>
                                 \E y \in ring' :
                                    /\ EntriesOf(ring', id) = {y}
                                    /\ y.sqe = TimeoutSqe(1, TRUE)
                                    /\ y.data = Backoff(ConnectSqe(socket, d.addr),
                                                        Reconnecting(id, socket, d.addr,
                                                                     d.source_index, 1, 1))]_vars

\* C29: on a connect completion with result < 0: when reconnect_limit >= reconnects
\* the connection is terminal (the counter goes down by one, no further timeout
\* or connect is submitted for it); otherwise the counter is unchanged and a
\* timeout of the doubled backoff, clamped to reconnect_backoff_limit, is
\* submitted carrying a connect, with reconnects incremented by exactly 1.
C29_ConnectFailure ==
    [][\A x \in ring :
          (Handled(x) /\ x.data.tag = "Reconnecting" /\ last'.result < 0)
              => LET d  == x.data
                     id == d.connection_id
                     b  == NextBackoff(d.backoff, reconnect_backoff_limit)
                 IN IF \E limit \in reconnect_limit : limit >= d.reconnects
                       THEN /\ connections' = connections - 1
                            /\ died'[id] = died[id] + 1
                            /\ EntriesOf(ring', id) = {}
                       ELSE /\ connections' = connections
                            /\ died'[id] = died[id]
                            /\ flow' = "Continue" =>
                                 \E y \in ring' :
                                    /\ EntriesOf(ring', id) = {y}
                                    /\ y.sqe.op = "timeout"
                                    /\ y.sqe.secs = b
                                    /\ y.data = Backoff(ConnectSqe(d.socket, d.addr),
                                                        Reconnecting(id, d.socket, d.addr,
                                                                     d.source_index, b,
                                                                     d.reconnects + 1))]_vars


(***************************************************************************)
(* Part II, the frame sources and the caches in front of them              *)
(* (epizentrum/src/frame_source/media_source.rs, epizentrum/src/lib.rs).   *)
(* Durations are whole ticks; a frame is known by its index in the         *)
(* animation, a command buffer by the frame it was made from.              *)
(***************************************************************************)
\* the most frames of an animation
MaxFrames == 2
\* the longest display duration of one frame, in ticks
MaxFrameTime == 4
\* the largest delta a source is queried at, in ticks
MaxDelta == 8
\* the most whole cycles added to a delta when periodicity is compared
MaxPeriods == 2

\* MediaSource::new: `frames.iter().map(|(_, d)| d).sum()`, the cycle time
RECURSIVE Sum(_)
Sum(fs) == IF fs = <<>> THEN 0 ELSE Head(fs) + Sum(Tail(fs))

\* the animations a file can decode to: at least one frame (new fails with
\* UnknownSize otherwise), every delay a duration >= 0
Animations == UNION {[1 .. n -> 0 .. MaxFrameTime] : n \in 1 .. MaxFrames}

\* what a query returns: a Timing, or the panic that ends it
Timing(frame, frame_time, time_left) ==
    [tag |-> "Timing", frame |-> frame, frame_time |-> frame_time, time_left |-> time_left]

Panic(what) == [tag |-> "panic", what |-> what]

\* the loop of MediaSource::frame from frame i on, accu the time accumulated so far
RECURSIVE Walk(_, _, _, _)
Walk(fs, i, accu, delta) ==
    IF i > Len(fs) THEN Panic("unreachable")
    ELSE IF accu + fs[i] >= delta THEN Timing(i - 1, fs[i], (accu + fs[i]) - delta)
    ELSE Walk(fs, i + 1, accu + fs[i], delta)

\* the wrapped delta: delta.as_nanos() % cycle_time.as_nanos()
Wrapped(delta, cycle) == delta % cycle

\* the lookup without the wrap of delta into the cycle
FrameAt_NoWrap(fs, delta) ==
    IF Sum(fs) = 0 THEN Panic("remainder by zero")
    ELSE Walk(fs, 1, 0, delta)

\* MediaSource::frame(delta)
FrameAt(fs, delta) ==
    IF Sum(fs) = 0 THEN Panic("remainder by zero")
    ELSE Walk(fs, 1, 0, Wrapped(delta, Sum(fs)))

\* a query and what it returned
Answer(delta, timing) == [delta |-> delta, timing |-> timing]

\* a MediaSource built from any animation, not yet queried
InitMedia ==
    /\ EngineIdle
    /\ frames \in Animations
    /\ answer = None
    /\ cache = <<>>
    /\ calls = 0
    /\ single = None
    /\ now = 0
    /\ invoked = None
    /\ size = <<0, 0>>
    /\ strategy = Rows(FALSE)
    /\ order = None
    /\ IoIdle

\* FrameSource::frame is called with some delta
QueryFrame ==
    /\ \E delta \in 0 .. MaxDelta : answer' = Some(Answer(delta, FrameAt(frames, delta)))
    /\ UNCHANGED <<engvars, frames, cache, calls, clockvars, drawvars, iovars>>

NextMedia == QueryFrame

SpecMedia == InitMedia /\ [][NextMedia]_vars

\* C18: frame lookup is periodic: with T_cycle > 0, what frame(t) returned (frame,
\* frame_time and time_left) is what frame(t + k * T_cycle) returns, for every k.
C18_FramePeriodic ==
    \A a \in answer :
        Sum(frames) > 0 =>
            \A k \in 0 .. MaxPeriods :
                FrameAt(frames, a.delta + k * Sum(frames)) = a.timing

\* C18 witness: frames of 2 and 4 ticks queried at 7, one cycle after 1: frame 0
C18_Witness ==
    /\ frames = <<2, 4>>
    /\ answer = Some(Answer(7, Timing(0, 2, 1)))

\* the time at which frame i (from 0) of the animation ends
RECURSIVE EndOf(_, _)
EndOf(fs, i) == IF i < 0 THEN 0 ELSE fs[i + 1] + EndOf(fs, i - 1)

\* C19: frame(t) always returns a frame: with t' = t mod T_cycle, the first frame
\* whose cumulative end time is >= t', with that frame's own duration and
\* time_left = cumulative end - t' <= frame_time; for frames of 100 ms and 200 ms
\* (2 and 4 ticks of 50 ms) frame(50ms) and frame(350ms) give frame 0 with 50 ms
\* left and frame(250ms) gives frame 1 with 50 ms left.
C19_FrameLookup ==
    /\ \A a \in answer :
        LET t == a.timing IN
        /\ t.tag = "Timing"
        /\ LET d == a.delta % Sum(frames) IN
           /\ t.frame \in 0 .. Len(frames) - 1
           /\ EndOf(frames, t.frame) >= d
           /\ \A j \in 0 .. t.frame - 1 : EndOf(frames, j) < d
           /\ t.frame_time = frames[t.frame + 1]
           /\ t.time_left = EndOf(frames, t.frame) - d
           /\ t.time_left <= t.frame_time
    /\ frames = <<2, 4>> =>
        /\ FrameAt(frames, 1) = Timing(0, 2, 1)
        /\ FrameAt(frames, 7) = Timing(0, 2, 1)
        /\ FrameAt(frames, 5) = Timing(1, 4, 1)

\* C19 case: frames of 100 ms and 200 ms queried at 250 ms: frame 1, 50 ms left
C19_Witness ==
    /\ frames = <<2, 4>>
    /\ answer = Some(Answer(5, Timing(1, 4, 1)))


(***************************************************************************)
(* ComputeOnceCache over a CompositeBufferSource over a MediaSource.       *)
(***************************************************************************)
\* the most invocations of the inner source followed in one behaviour
MaxCalls == 4

\* the inner source returned Err (the frame processor failed)
SourceErr == [tag |-> "Err"]

\* CompositeBufferSource::command_buffer(delta): the frame looked up, then
\* processed into a buffer, which can fail
InnerCommandBuffer(fs, delta) == {FrameAt(fs, delta), SourceErr}

\* one cache entry ((start, end), frame)
Entry(start, end, frame) == [start |-> start, end |-> end, frame |-> frame]

\* the closure given to binary_search_by
Compare(entry, delta) ==
    IF delta < entry.start THEN "Less"
    ELSE IF delta >= entry.end THEN "Greater"
    ELSE "Equal"

\* slice::binary_search_by over c[left .. right), indices from 0: a probe that
\* answers Less sends the search to the right, Greater to the left
RECURSIVE BinarySearch(_, _, _, _)
BinarySearch(c, delta, left, right) ==
    IF left >= right THEN [found |-> FALSE, index |-> left]
    ELSE LET mid == left + ((right - left) \div 2)
             cmp == Compare(c[mid + 1], delta)
         IN IF cmp = "Equal" THEN [found |-> TRUE, index |-> mid]
            ELSE BinarySearch(c, delta,
                              IF cmp = "Less" THEN mid + 1 ELSE left,
                              IF cmp = "Greater" THEN mid ELSE right)

\* Vec::insert(i, x), i from 0
InsertAt(c, i, x) == SubSeq(c, 1, i) \o <<x>> \o SubSeq(c, i + 1, Len(c))

\* the entry a miss stores for what the inner source returned at delta
Stored(delta, t) ==
    Entry((delta + t.time_left) - t.frame_time, delta + t.time_left, t.frame)

\* a ComputeOnceCache built over any animation, empty
InitOnce ==
    /\ EngineIdle
    /\ frames \in Animations
    /\ answer = None
    /\ cache = <<>>
    /\ calls = 0
    /\ single = None
    /\ now = 0
    /\ invoked = None
    /\ size = <<0, 0>>
    /\ strategy = Rows(FALSE)
    /\ order = None
    /\ IoIdle

\* command_buffer(delta) with a cycle time of zero: the remainder panics
OncePanic ==
    /\ Sum(frames) = 0
    /\ \E delta \in 0 .. MaxDelta : answer' = Some(Answer(delta, Panic("remainder by zero")))
    /\ UNCHANGED <<engvars, frames, cache, calls, clockvars, drawvars, iovars>>

\* command_buffer(delta), Ok(i): an interval holds delta, the inner source rests
OnceHit ==
    /\ Sum(frames) > 0
    /\ \E delta \in 0 .. MaxDelta :
        LET d == Wrapped(delta, Sum(frames))
            r == BinarySearch(cache, d, 0, Len(cache))
            e == cache[r.index + 1]
        IN /\ r.found
           /\ answer' = Some(Answer(delta, Timing(e.frame, e.end - e.start, e.end - d)))
    /\ UNCHANGED <<engvars, frames, cache, calls, clockvars, drawvars, iovars>>

\* command_buffer(delta), Err(i): the inner source answers and its interval is
\* inserted at i
OnceMiss ==
    /\ Sum(frames) > 0
    /\ calls < MaxCalls
    /\ \E delta \in 0 .. MaxDelta :
        LET d == Wrapped(delta, Sum(frames))
            r == BinarySearch(cache, d, 0, Len(cache))
        IN /\ ~r.found
           /\ \E t \in InnerCommandBuffer(frames, d) :
                /\ t.tag = "Timing"
                /\ cache' = InsertAt(cache, r.index, Stored(d, t))
                /\ answer' = Some(Answer(delta, t))
    /\ calls' = calls + 1
    /\ UNCHANGED <<engvars, frames, clockvars, drawvars, iovars>>

\* command_buffer(delta), Err(i), and the inner source fails: nothing is stored
OnceMissErr ==
    /\ Sum(frames) > 0
    /\ calls < MaxCalls
    /\ \E delta \in 0 .. MaxDelta :
        LET d == Wrapped(delta, Sum(frames))
            r == BinarySearch(cache, d, 0, Len(cache))
        IN /\ ~r.found
           /\ SourceErr \in InnerCommandBuffer(frames, d)
           /\ answer' = Some(Answer(delta, SourceErr))
    /\ calls' = calls + 1
    /\ UNCHANGED <<engvars, frames, cache, clockvars, drawvars, iovars>>

NextOnce ==
    \/ OncePanic
    \/ OnceHit
    \/ OnceMiss
    \/ OnceMissErr

SpecOnce == InitOnce /\ [][NextOnce]_vars

\* two stored intervals [start, end) share a point
Overlap(a, b) == a.start < b.end /\ b.start < a.end

\* C15: after any sequence of queries the stored intervals are pairwise
\* non-overlapping and sorted by start (in one direction or the other).
C15_IntervalsDisjointSorted ==
    /\ \A i, j \in 1 .. Len(cache) : i /= j => ~Overlap(cache[i], cache[j])
    /\ \/ \A i, j \in 1 .. Len(cache) : i < j => cache[i].start <= cache[j].start
       \/ \A i, j \in 1 .. Len(cache) : i < j => cache[i].start >= cache[j].start

\* the shortest display duration of the animation
RECURSIVE MinTime(_)
MinTime(fs) == IF Len(fs) = 1 THEN fs[1] ELSE Min(Head(fs), MinTime(Tail(fs)))

\* ceil(a / b)
CeilDiv(a, b) == (a + b - 1) \div b

\* C16: over an animation whose frames all last, the inner source is invoked at
\* most ceil(T_cycle / min_frame_time) times in total and the cache never grows
\* beyond that bound.  Every invocation that returns a buffer stores one entry,
\* so the entries count the invocations that succeeded.
C16_InnerCallsBounded ==
    MinTime(frames) > 0 =>
        Len(cache) <= CeilDiv(Sum(frames), MinTime(frames))

\* C30: ComputeOnceCache is observationally equal to its inner source: after any
\* sequence of earlier queries, command_buffer(delta) returns the buffer, the
\* frame_time and the time_left the inner source returns for delta mod T_cycle.
C30_CacheIsTransparent ==
    \A a \in answer :
        a.timing.tag = "Timing" => a.timing = FrameAt(frames, Wrapped(a.delta, Sum(frames)))


(***************************************************************************)
(* SingleFrameCache over the same inner source, read against a wall clock  *)
(* that never runs backwards.                                              *)
(***************************************************************************)
\* the latest wall-clock time followed, in ticks
MaxNow == 5

\* an entry stored with its two times in each other's place
Kept_Swapped(valid_until, frame_time, frame) ==
    [valid_until |-> frame_time, frame_time |-> valid_until, frame |-> frame]

\* the stored entry (valid_until, frame_time, frame)
Kept(valid_until, frame_time, frame) ==
    [valid_until |-> valid_until, frame_time |-> frame_time, frame |-> frame]

\* a stored entry that expires one tick early
StillValid_Early(kept, t) == t < kept.valid_until

\* the guard of the hit arm: now <= *valid_until
StillValid(kept, t) == t <= kept.valid_until

\* an inner invocation that answered at wall time t with time_left
Invocation(t, time_left) == [at |-> t, time_left |-> time_left]

\* the animations the SingleFrameCache is followed over: no cycle time at all, a
\* still frame, two frames, and a frame of no duration before one that lasts
ClockedAnimations == {<<0>>, <<2>>, <<1, 2>>, <<0, 3>>}

\* a SingleFrameCache built over one of these animations, empty, the clock at 0
InitSingle ==
    /\ EngineIdle
    /\ frames \in ClockedAnimations
    /\ answer = None
    /\ cache = <<>>
    /\ calls = 0
    /\ single = None
    /\ now = 0
    /\ invoked = None
    /\ size = <<0, 0>>
    /\ strategy = Rows(FALSE)
    /\ order = None
    /\ IoIdle

\* time passes between two queries
Tick ==
    /\ now < MaxNow
    /\ now' = now + 1
    /\ UNCHANGED <<engvars, frames, answer, cache, calls, single, invoked, drawvars, iovars>>

\* command_buffer(delta) with a cycle time of zero: the remainder panics
SinglePanic ==
    /\ Sum(frames) = 0
    /\ \E delta \in 0 .. MaxDelta : answer' = Some(Answer(delta, Panic("remainder by zero")))
    /\ UNCHANGED <<engvars, frames, cache, calls, clockvars, drawvars, iovars>>

\* command_buffer(delta), the stored entry is still valid: the inner source rests
SingleHit ==
    /\ Sum(frames) > 0
    /\ \E kept \in single :
        /\ StillValid(kept, now)
        /\ \E delta \in 0 .. MaxDelta :
             answer' = Some(Answer(delta, Timing(kept.frame, kept.frame_time,
                                                 kept.valid_until - now)))
    /\ UNCHANGED <<engvars, frames, cache, calls, clockvars, drawvars, iovars>>

\* command_buffer(delta), nothing valid is stored: the inner source answers, and
\* the entry is stored against a second reading of the clock, later is the time
\* the second reading shows
SingleMiss ==
    /\ Sum(frames) > 0
    /\ calls < MaxCalls
    /\ \A kept \in single : ~StillValid(kept, now)
    /\ \E delta \in 0 .. MaxDelta, later \in now .. MaxNow :
        \E t \in InnerCommandBuffer(frames, Wrapped(delta, Sum(frames))) :
            /\ t.tag = "Timing"
            /\ single' = Some(Kept(later + t.time_left, t.frame_time, t.frame))
            /\ invoked' = Some(Invocation(later, t.time_left))
            /\ answer' = Some(Answer(delta, t))
            /\ now' = later
    /\ calls' = calls + 1
    /\ UNCHANGED <<engvars, frames, cache, drawvars, iovars>>

\* a miss that gives up the stored entry when the inner source fails
SingleMissErr_Forgets ==
    /\ Sum(frames) > 0
    /\ calls < MaxCalls
    /\ \A kept \in single : ~StillValid(kept, now)
    /\ \E delta \in 0 .. MaxDelta :
        /\ SourceErr \in InnerCommandBuffer(frames, Wrapped(delta, Sum(frames)))
        /\ answer' = Some(Answer(delta, SourceErr))
    /\ calls' = calls + 1
    /\ single' = None
    /\ UNCHANGED <<engvars, frames, cache, now, invoked, drawvars, iovars>>

\* command_buffer(delta), nothing valid is stored and the inner source fails
SingleMissErr ==
    /\ Sum(frames) > 0
    /\ calls < MaxCalls
    /\ \A kept \in single : ~StillValid(kept, now)
    /\ \E delta \in 0 .. MaxDelta :
        /\ SourceErr \in InnerCommandBuffer(frames, Wrapped(delta, Sum(frames)))
        /\ answer' = Some(Answer(delta, SourceErr))
    /\ calls' = calls + 1
    /\ UNCHANGED <<engvars, frames, cache, clockvars, drawvars, iovars>>

NextSingle ==
    \/ Tick
    \/ SinglePanic
    \/ SingleHit
    \/ SingleMiss
    \/ SingleMissErr

SpecSingle == InitSingle /\ [][NextSingle]_vars

\* C17: after the inner source answered at wall time t with time_left = L, no
\* query made at a wall time in [t, t + L] invokes the inner source.
C17_OncePerValidity ==
    [][calls' > calls =>
          \A v \in invoked : ~(v.at <= now /\ now <= v.at + v.time_left)]_vars

\* C17 witness: the inner source answered once with time_left > 0, and a query
\* made exactly when that time had run out was served from the stored entry
C17_Witness ==
    /\ calls = 1
    /\ \E v \in invoked :
        /\ v.time_left > 0
        /\ now = v.at + v.time_left
        /\ \E a \in answer : a.timing.tag = "Timing" /\ a.timing.time_left = 0


(***************************************************************************)
(* Part III, the draw order (epizentrum/src/draw_strategy.rs).             *)
(***************************************************************************)
\* the widest and the tallest frame a draw order is computed for
MaxWidth == 3
MaxHeight == 2
\* the most pixels of a frame whose order is shuffled
MaxShuffle == 4

\* a mapping that hands the loop indices on as they come
Mapping_Plain(swap, x, y) == <<x, y>>

\* the closures given to generate_draw_order: |x, y| (y, x) and |x, y| (x, y)
Mapping(swap, x, y) == IF swap THEN <<y, x>> ELSE <<x, y>>

\* generate_draw_order((n0, n1), mapping): x over 0 .. n0, for each y over 0 .. n1
GenerateDrawOrder(n0, n1, swap) ==
    [k \in 1 .. n0 * n1 |-> Mapping(swap, (k - 1) \div n1, (k - 1) % n1)]

\* Vec::reverse
Reverse(seq) == [k \in 1 .. Len(seq) |-> seq[Len(seq) + 1 - k]]

\* slice::shuffle: any rearrangement
Shuffles(seq) ==
    {[k \in 1 .. Len(seq) |-> seq[p[k]]] : p \in Permutations(1 .. Len(seq))}

\* every DrawStrategy value
Strategies == {Random, Rows(FALSE), Rows(TRUE), Columns(FALSE), Columns(TRUE)}

\* a strategy and a size are chosen, nothing is computed yet
InitDraw ==
    /\ EngineIdle
    /\ frames = <<>>
    /\ answer = None
    /\ cache = <<>>
    /\ calls = 0
    /\ single = None
    /\ now = 0
    /\ invoked = None
    /\ strategy \in Strategies
    /\ size \in (0 .. MaxWidth) \X (0 .. MaxHeight)
    /\ strategy = Random => size[1] * size[2] <= MaxShuffle
    /\ order = None
    /\ IoIdle

\* draw_order, DrawStrategy::Random
DrawRandom ==
    /\ strategy.tag = "Random"
    /\ order = None
    /\ \E o \in Shuffles(GenerateDrawOrder(size[1], size[2], FALSE)) : order' = Some(o)
    /\ UNCHANGED <<engvars, frames, answer, cache, calls, clockvars, size, strategy, iovars>>

\* draw_order, DrawStrategy::Rows { reversed }
DrawRows ==
    /\ strategy.tag = "Rows"
    /\ order = None
    /\ LET o == GenerateDrawOrder(size[2], size[1], TRUE)
       IN order' = Some(IF strategy.reversed THEN Reverse(o) ELSE o)
    /\ UNCHANGED <<engvars, frames, answer, cache, calls, clockvars, size, strategy, iovars>>

\* draw_order, DrawStrategy::Columns { reversed }
DrawColumns ==
    /\ strategy.tag = "Columns"
    /\ order = None
    /\ LET o == GenerateDrawOrder(size[1], size[2], FALSE)
       IN order' = Some(IF strategy.reversed THEN Reverse(o) ELSE o)
    /\ UNCHANGED <<engvars, frames, answer, cache, calls, clockvars, size, strategy, iovars>>

NextDraw ==
    \/ DrawRandom
    \/ DrawRows
    \/ DrawColumns

SpecDraw == InitDraw /\ [][NextDraw]_vars

\* C20: for every size (W, H) and every policy, draw_order returns exactly W * H
\* coordinates, each with 0 <= x < W and 0 <= y < H, none of them twice.
C20_DrawOrderPermutation ==
    \A o \in order :
        /\ Len(o) = size[1] * size[2]
        /\ \A k \in 1 .. Len(o) :
            /\ o[k][1] \in 0 .. size[1] - 1
            /\ o[k][2] \in 0 .. size[2] - 1
        /\ \A j, k \in 1 .. Len(o) : j /= k => o[j] /= o[k]

\* C20 witness: policy up on a 3 x 2 frame: bottom row first, each row right to left
C20_Witness ==
    /\ strategy = Rows(TRUE)
    /\ size = <<3, 2>>
    /\ order = Some(<< <<2, 1>>, <<1, 1>>, <<0, 1>>, <<2, 0>>, <<1, 0>>, <<0, 0>> >>)


(***************************************************************************)
(* The draw-strategy strings (Display and FromStr of DrawStrategy).        *)
(***************************************************************************)
\* Result<T, E>
Ok(v) == [tag |-> "Ok", value |-> v]
Err(e) == [tag |-> "Err", error |-> e]

\* ParseError::Invalid(s)
Invalid(s) == [tag |-> "ParseError::Invalid", text |-> s]

\* a Display that writes both row policies as "down"
Display_RowsDown(s) ==
    CASE s = Random -> "random"
      [] s = Rows(FALSE) -> "down"
      [] s = Rows(TRUE) -> "down"
      [] s = Columns(FALSE) -> "right"
      [] s = Columns(TRUE) -> "left"

\* impl Display for DrawStrategy
Display(s) ==
    CASE s = Random -> "random"
      [] s = Rows(FALSE) -> "down"
      [] s = Rows(TRUE) -> "up"
      [] s = Columns(FALSE) -> "right"
      [] s = Columns(TRUE) -> "left"

\* impl FromStr for DrawStrategy
FromStr(s) ==
    CASE s = "random" -> Ok(Random)
      [] s = "down" -> Ok(Rows(FALSE))
      [] s = "up" -> Ok(Rows(TRUE))
      [] s = "right" -> Ok(Columns(FALSE))
      [] s = "left" -> Ok(Columns(TRUE))
      [] OTHER -> Err(Invalid(s))

\* the names of the five policies
PolicyNames == {"random", "down", "up", "right", "left"}

\* the strings from_str is tried on: the five names and near misses of them
Words ==
    PolicyNames \cup {"", "Down", "UP", "up ", " left", "rows", "columns", "reversed",
                      "downup", "rand"}

\* a string to parse and a value to format
InitStrategy ==
    /\ EngineIdle
    /\ MediaIdle
    /\ size = <<0, 0>>
    /\ order = None
    /\ strategy \in Strategies
    /\ text \in Words
    /\ parsed = None
    /\ ProcIdle
    /\ SizeIdle
    /\ FlatIdle

\* text.parse::<DrawStrategy>()
ParseStrategy ==
    /\ parsed = None
    /\ parsed' = Some(FromStr(text))
    /\ UNCHANGED <<engvars, frames, answer, cache, calls, clockvars, drawvars, text,
                   procvars, sizevars, flatvars>>

\* strategy.to_string(): the string made replaces the one held, to be parsed anew
FormatStrategy ==
    /\ text' = Display(strategy)
    /\ parsed' = None
    /\ UNCHANGED <<engvars, frames, answer, cache, calls, clockvars, drawvars,
                   procvars, sizevars, flatvars>>

NextStrategy ==
    \/ ParseStrategy
    \/ FormatStrategy

SpecStrategy == InitStrategy /\ [][NextStrategy]_vars

\* C26: parsing one of 'random', 'down', 'up', 'right', 'left' and formatting the
\* result yields the same string; formatting any DrawStrategy value and parsing
\* the string yields the same value; every other string is rejected with
\* ParseError::Invalid.
C26_ParseFormatRoundTrip ==
    /\ \A p \in parsed :
        IF text \in PolicyNames
            THEN p.tag = "Ok" /\ Display(p.value) = text
            ELSE p = Err(Invalid(text))
    /\ (parsed /= None /\ text = Display(strategy)) => parsed = Some(Ok(strategy))
    /\ \A s \in Strategies : FromStr(Display(s)) = Ok(s)

\* C26 witness: the value Rows { reversed: true } was formatted as "up" and the
\* string parsed back to it
C26_Witness ==
    /\ strategy = Rows(TRUE)
    /\ text = "up"
    /\ parsed = Some(Ok(Rows(TRUE)))


(***************************************************************************)
(* Part IV, the SIZE handshake (tsunami/src/main.rs, get_size).  A byte is *)
(* a one-character string, the reply a sequence of bytes; the peer sends   *)
(* `sent` and then closes the connection or stays silent, and each read    *)
(* returns between 1 and 32 of the bytes not yet read.                     *)
(***************************************************************************)
\* const MAX_SIZE_RESPONSE_LENGTH
MAX_SIZE_RESPONSE_LENGTH == 32

\* u16::MAX
U16Max == 65535

\* the bytes a reply is made of
SIZE == <<"S", "I", "Z", "E">>
SP == <<" ">>
NL == <<"\n">>

\* a byte above 0x7f: char::from makes it a char of two bytes in the String
HighBytes == {"0xE9"}

\* String::len of the characters pushed: the length in UTF-8
RECURSIVE Utf8Len(_)
Utf8Len(str) ==
    IF str = <<>> THEN 0
    ELSE (IF Head(str) \in HighBytes THEN 2 ELSE 1) + Utf8Len(Tail(str))

\* str::contains(c)
Contains(str, c) == \E i \in 1 .. Len(str) : str[i] = c

\* the index of the first c in str; Len(str) + 1 when there is none
RECURSIVE Find(_, _, _)
Find(str, c, i) ==
    IF i > Len(str) THEN i
    ELSE IF str[i] = c THEN i
    ELSE Find(str, c, i + 1)

\* str::replace(c, ""): every c is dropped
Strip(str, c) == SelectSeq(str, LAMBDA x : x /= c)

\* str::split(c): the pieces between the c's, empty pieces included
RECURSIVE Split(_, _)
Split(str, c) ==
    LET i == Find(str, c, 1)
    IN IF i > Len(str) THEN <<str>>
       ELSE <<SubSeq(str, 1, i - 1)>> \o Split(SubSeq(str, i + 1, Len(str)), c)

DigitValue ==
    [c \in {"0", "1", "2", "3", "4", "5", "6", "7", "8", "9"} |->
        CASE c = "0" -> 0 [] c = "1" -> 1 [] c = "2" -> 2 [] c = "3" -> 3 [] c = "4" -> 4
          [] c = "5" -> 5 [] c = "6" -> 6 [] c = "7" -> 7 [] c = "8" -> 8 [] c = "9" -> 9]

\* the digits of str read from the left onto acc; -1 for a byte that is no digit
\* or a value above u16::MAX
RECURSIVE ReadDigits(_, _)
ReadDigits(str, acc) ==
    IF str = <<>> THEN acc
    ELSE IF Head(str) \notin DOMAIN DigitValue THEN 0 - 1
    ELSE LET v == (acc * 10) + DigitValue[Head(str)]
         IN IF v > U16Max THEN 0 - 1 ELSE ReadDigits(Tail(str), v)

\* u16::from_str: an optional '+', then at least one digit, nothing else
U16FromStr(str) ==
    LET digits == IF str /= <<>> /\ Head(str) = "+" THEN Tail(str) ELSE str
        v      == ReadDigits(digits, 0)
    IN IF digits = <<>> \/ v < 0 THEN Err("ParseIntError") ELSE Ok(v)

\* the index (from 0) of the first piece equal to "SIZE", None when there is none
SizeIndex(splits) ==
    LET hits == {i \in 1 .. Len(splits) : splits[i] = SIZE}
    IN IF hits = {} THEN None
       ELSE Some((CHOOSE i \in hits : \A j \in hits : i <= j) - 1)

\* get_size after the loop: split on spaces, find "SIZE", parse the next two pieces
ParseReply(str) ==
    LET splits == Split(str, " ")
        idx    == SizeIndex(splits)
    IN IF idx = None THEN Err("invalid response")
       ELSE LET i == CHOOSE k \in idx : TRUE
            IN IF Len(splits) < i + 3 THEN Err("invalid response")
               ELSE LET x == U16FromStr(splits[i + 2])
                        y == U16FromStr(splits[i + 3])
                    IN IF x.tag = "Err" THEN x
                       ELSE IF y.tag = "Err" THEN y
                       ELSE Ok(<<x.value, y.value>>)

\* n bytes that are no newline
RECURSIVE Padding(_)
Padding(n) == IF n = 0 THEN <<>> ELSE <<"a">> \o Padding(n - 1)

\* what a peer sends after "SIZE\n": well-formed replies, replies followed by
\* more bytes, and malformed ones
Replies ==
    { SIZE \o SP \o <<"8">> \o SP \o <<"6">> \o NL,
      SIZE \o SP \o <<"8", "0", "0">> \o SP \o <<"6", "0", "0">> \o NL,
      SIZE \o SP \o <<"6", "5", "5", "3", "5">> \o SP \o <<"1">> \o NL,
      SIZE \o SP \o <<"6", "5", "5", "3", "6">> \o SP \o <<"1">> \o NL,
      SIZE \o SP \o <<"+", "8">> \o SP \o <<"0", "6">> \o NL,
      SIZE \o SP \o <<"-", "8">> \o SP \o <<"6">> \o NL,
      SIZE \o SP \o <<"8">> \o SP \o <<"x">> \o NL,
      SIZE \o SP \o <<"8">> \o SP \o <<"6">> \o SP \o <<"7">> \o NL,
      SIZE \o SP \o SP \o <<"8">> \o SP \o <<"6">> \o NL,
      SIZE \o SP \o <<"8">> \o SP \o <<"6", "\r">> \o NL,
      SIZE \o SP \o <<"8">> \o NL,
      SIZE \o NL,
      <<"S", "I", "Z">> \o SP \o <<"8">> \o SP \o <<"6">> \o NL,
      <<"O", "K">> \o SP \o SIZE \o SP \o <<"8">> \o SP \o <<"6">> \o NL,
      SIZE \o SP \o <<"8">> \o SP \o <<"6">> \o NL \o <<"P", "X">>,
      SIZE \o SP \o <<"8">> \o SP \o <<"6">> \o NL \o SIZE \o SP \o <<"1">> \o SP \o <<"2">> \o NL,
      SIZE \o SP \o <<"8">> \o SP \o NL \o <<"6">> \o NL,
      SIZE \o SP \o <<"8">> \o SP \o <<"6">>,
      NL,
      <<>>,
      Padding(MAX_SIZE_RESPONSE_LENGTH + 8),
      Padding(MAX_SIZE_RESPONSE_LENGTH - 10) \o SP \o SIZE \o SP \o <<"8">> \o SP \o <<"6">> \o NL,
      <<"0xE9">> \o Padding(MAX_SIZE_RESPONSE_LENGTH - 2) \o NL }

\* the stream after connect: nothing read yet; the peer closes after its last
\* byte or leaves the connection open
Stream(sent, closes) == [sent |-> sent, pos |-> 0, closes |-> closes]

\* the bytes of the stream not yet read
Pending(st) == SubSeq(st.sent, st.pos + 1, Len(st.sent))

\* TcpStream::connect succeeded, get_size begins
InitSize ==
    /\ EngineIdle
    /\ MediaIdle
    /\ size = <<0, 0>>
    /\ strategy = Rows(FALSE)
    /\ order = None
    /\ CliIdle
    /\ ProcIdle
    /\ stream \in {Stream(sent, closes) : sent \in Replies, closes \in BOOLEAN}
    /\ response = <<>>
    /\ handshake = None
    /\ FlatIdle

\* stream.write_all(..)? or stream.read(..)? returns an io::Error
SizeIoErr ==
    /\ handshake = None
    /\ handshake' = Some(Err("io::Error"))
    /\ UNCHANGED <<engvars, frames, answer, cache, calls, clockvars, drawvars, clivars,
                   procvars, stream, response, flatvars>>

\* read returns 0: the peer closed
SizeClosed ==
    /\ handshake = None
    /\ Pending(stream) = <<>>
    /\ stream.closes
    /\ handshake' = Some(Err("connection closed unexpectedly"))
    /\ UNCHANGED <<engvars, frames, answer, cache, calls, clockvars, drawvars, clivars,
                   procvars, stream, response, flatvars>>

\* read returns n > 0 bytes: they are pushed onto res; with a newline in res the
\* loop ends and the reply is parsed, a res longer than the limit is an error,
\* otherwise the loop reads again
SizeRead ==
    /\ handshake = None
    /\ \E n \in 1 .. Min(MAX_SIZE_RESPONSE_LENGTH, Len(Pending(stream))) :
        LET pushed == response \o SubSeq(Pending(stream), 1, n)
        IN /\ stream' = [stream EXCEPT !.pos = @ + n]
           /\ IF Contains(pushed, "\n")
                 THEN /\ response' = Strip(pushed, "\n")
                      /\ handshake' = Some(ParseReply(Strip(pushed, "\n")))
                 ELSE /\ response' = pushed
                      /\ handshake' = IF Utf8Len(pushed) > MAX_SIZE_RESPONSE_LENGTH
                                         THEN Some(Err("server response exceeded allowed length"))
                                         ELSE None
    /\ UNCHANGED <<engvars, frames, answer, cache, calls, clockvars, drawvars, clivars,
                   procvars, flatvars>>

NextSize ==
    \/ SizeIoErr
    \/ SizeClosed
    \/ SizeRead

SpecSize == InitSize /\ [][NextSize]_vars

\* the reply line: what the peer sent up to its first newline
Line(sent) == SubSeq(sent, 1, Find(sent, "\n", 1) - 1)

\* C27: the handshake yields (W, H) exactly when the reply line, read up to the
\* first newline, holds the token SIZE followed by two tokens that parse as u16;
\* it fails when the peer closes before a newline, when the reply grows past 32
\* bytes without a newline, when SIZE is absent, when fewer than two tokens
\* follow it or when one of them is no u16; and it never reads on without end
\* from a peer that sends no newline.  (A line longer than the limit may be
\* accepted or refused, by how the reads fall; a read that fails ends the
\* handshake whatever was sent.)
C27_SizeHandshake ==
    LET sent == stream.sent
        line == Line(sent)
    IN /\ handshake = None => Utf8Len(response) <= MAX_SIZE_RESPONSE_LENGTH
       /\ \A h \in handshake :
            /\ h.tag = "Ok" => Contains(sent, "\n") /\ ParseReply(line) = h
            /\ (h.tag = "Err" /\ h.error /= "io::Error"
                  /\ Contains(sent, "\n") /\ Utf8Len(line) < MAX_SIZE_RESPONSE_LENGTH)
                 => ParseReply(line).tag = "Err"

\* C27 witness: the peer answered "SIZE 800 600\n" and the handshake yielded
\* (800, 600)
C27_Witness ==
    /\ stream.sent = SIZE \o SP \o <<"8", "0", "0">> \o SP \o <<"6", "0", "0">> \o NL
    /\ handshake = Some(Ok(<<800, 600>>))


(***************************************************************************)
(* Part V, the frame processors (epizentrum/src/frame_processing): the CPU *)
(* processor (rayon_processor.rs) and the GPU processor                    *)
(* (gpu_processor.rs).  A command buffer is a sequence of bytes, a pixel   *)
(* the four bytes of its channels.  Coordinates are u16: a sum above       *)
(* u16::MAX panics in a build with overflow checks and wraps in one        *)
(* without.                                                                *)
(***************************************************************************)
\* the widest and the tallest frame processed
MaxFrameWidth == 2
MaxFrameHeight == 2
\* the largest offset and the largest canvas side tried with every frame
MaxOffset == 1
MaxCanvas == 2

\* const COMMAND_BUFFER_COLOR_LENGTH
COMMAND_BUFFER_COLOR_LENGTH == 8

\* Frame::Rgba(buffer) and Frame::Bgra(buffer)
Rgba(buffer) == [kind |-> "Rgba", buffer |-> buffer]
Bgra(buffer) == [kind |-> "Bgra", buffer |-> buffer]

\* {:02x}: two lowercase hex digits
HexDigits == <<"0", "1", "2", "3", "4", "5", "6", "7", "8", "9", "a", "b", "c", "d", "e", "f">>
Hex2(b) == <<HexDigits[(b \div 16) + 1], HexDigits[(b % 16) + 1]>>

\* {}: a u16 in decimal
RECURSIVE Decimal(_)
Decimal(n) ==
    IF n < 10 THEN <<HexDigits[n + 1]>>
    ELSE Decimal(n \div 10) \o <<HexDigits[(n % 10) + 1]>>

\* the sum of two u16 in a build without overflow checks
WrapU16(n) == n % (U16Max + 1)

PX == <<"P", "X">>

\* a match that takes every gray pixel for opaque
ColorCode_GrayAnyAlpha(r, g, b, a) ==
    IF r = g /\ g = b THEN Hex2(r)
    ELSE IF a = 255 THEN Hex2(r) \o Hex2(g) \o Hex2(b)
    ELSE Hex2(r) \o Hex2(g) \o Hex2(b) \o Hex2(a)

\* the match on the pixel: gray and opaque, opaque, or with alpha
ColorCode(r, g, b, a) ==
    IF a = 255 /\ r = g /\ g = b THEN Hex2(r)
    ELSE IF a = 255 THEN Hex2(r) \o Hex2(g) \o Hex2(b)
    ELSE Hex2(r) \o Hex2(g) \o Hex2(b) \o Hex2(a)

\* Frame::Rgba: format!("PX {xx} {yy} ..\n") of the pixel [r, g, b, a]
RgbaCommand(p, xx, yy) ==
    PX \o SP \o Decimal(xx) \o SP \o Decimal(yy) \o SP \o ColorCode(p[1], p[2], p[3], p[4]) \o NL

\* Frame::Bgra: format!("PX {x} {y} ..") of the pixel [b, g, r, a]
BgraCommand(p, x, y) ==
    PX \o SP \o Decimal(x) \o SP \o Decimal(y) \o SP \o ColorCode(p[3], p[2], p[1], p[4])

\* the filter of the CPU processor: None when x >= canvas W or y >= canvas H
RayonKeeps(c, canvas) == ~(c[1] >= canvas[1] \/ c[2] >= canvas[2])

\* flatten: the commands one after the other
RECURSIVE Flatten(_)
Flatten(cmds) == IF cmds = <<>> THEN <<>> ELSE Head(cmds) \o Flatten(Tail(cmds))

\* buffer[(y * size.0) + x]
PixelAt(buffer, c, w) == buffer[((c[2] * w) + c[1]) + 1]

\* RayonProcessor::process: the commands of the pixels kept, in draw order
RayonProcess(frame, draw_order, w, off, canvas, checks) ==
    LET kept == SelectSeq(draw_order, LAMBDA c : RayonKeeps(c, canvas))
    IN IF frame.kind = "Rgba"
          THEN IF checks /\ \E k \in 1 .. Len(kept) :
                                \/ kept[k][1] + off[1] > U16Max
                                \/ kept[k][2] + off[2] > U16Max
                  THEN Panic("attempt to add with overflow")
                  ELSE Ok(Flatten([k \in 1 .. Len(kept) |->
                                      RgbaCommand(PixelAt(frame.buffer, kept[k], w),
                                                  WrapU16(kept[k][1] + off[1]),
                                                  WrapU16(kept[k][2] + off[2]))]))
          ELSE Ok(Flatten([k \in 1 .. Len(kept) |->
                              BgraCommand(PixelAt(frame.buffer, kept[k], w),
                                          kept[k][1], kept[k][2])]))

\* vec![b; n]
RECURSIVE Repeat(_, _)
Repeat(b, n) == IF n = 0 THEN <<>> ELSE <<b>> \o Repeat(b, n - 1)

\* GpuProcessor::new, the loop over the draw order from its k-th pixel on:
\* a pixel inside the canvas gets "PX x y ", its place in color_idx, eight 'X'
\* and a newline
RECURSIVE GpuTemplate(_, _, _, _, _, _)
GpuTemplate(draw_order, k, w, off, canvas, acc) ==
    IF k > Len(draw_order) THEN acc
    ELSE LET x  == draw_order[k][1]
             y  == draw_order[k][2]
             xx == WrapU16(x + off[1])
             yy == WrapU16(y + off[2])
         IN IF xx >= canvas[1] \/ yy >= canvas[2]
               THEN GpuTemplate(draw_order, k + 1, w, off, canvas, acc)
               ELSE LET head == acc.template \o PX \o SP \o Decimal(xx) \o SP
                                    \o Decimal(yy) \o SP
                    IN GpuTemplate(draw_order, k + 1, w, off, canvas,
                                   [template  |-> head \o Repeat("X", COMMAND_BUFFER_COLOR_LENGTH)
                                                      \o NL,
                                    color_idx |-> [acc.color_idx EXCEPT ![(y * w) + x] =
                                                       Len(head)]])

\* an addition of GpuProcessor::new leaves u16: `x + offset.0`, or `y + offset.1`
\* when the first comparison did not settle the condition
GpuOverflows(draw_order, off, canvas) ==
    \E k \in 1 .. Len(draw_order) :
        LET x == draw_order[k][1]
            y == draw_order[k][2]
        IN \/ x + off[1] > U16Max
           \/ x + off[1] < canvas[1] /\ y + off[2] > U16Max

\* GpuProcessor::new: the processor, or the panic of an overflow check
GpuNewProcessor(draw_order, sz, off, canvas, checks) ==
    IF checks /\ GpuOverflows(draw_order, off, canvas)
       THEN Panic("attempt to add with overflow")
       ELSE LET made == GpuTemplate(draw_order, 1, sz[1], off, canvas,
                                    [template  |-> Repeat("0x00", COMMAND_BUFFER_COLOR_LENGTH),
                                     color_idx |-> [i \in 0 .. (sz[1] * sz[2]) - 1 |-> 0]])
            IN [tag |-> "Gpu", template |-> made.template, color_idx |-> made.color_idx,
                threads |-> Len(draw_order)]

\* the eight digits a kernel writes for the pixel p: fill_rbga reads [r, g, b, a],
\* fill_bgra reads [b, g, r, a]; both write r, g, b, a
KernelDigits(kind, p) ==
    IF kind = "Rgba" THEN Hex2(p[1]) \o Hex2(p[2]) \o Hex2(p[3]) \o Hex2(p[4])
    ELSE Hex2(p[3]) \o Hex2(p[2]) \o Hex2(p[1]) \o Hex2(p[4])

\* command_buffer[at + 0 .. at + 7] = digits, indices from 0
Write8(buf, at, digits) ==
    [i \in 1 .. Len(buf) |->
        IF (i - 1) \in at .. (at + COMMAND_BUFFER_COLOR_LENGTH - 1) THEN digits[i - at]
        ELSE buf[i]]

\* the most work-items followed in every order they can run in
MaxScheduled == 3

\* the orders the work-items of a dispatch are followed in: every order of up
\* to MaxScheduled work-items, and beyond that the ascending and the descending
Schedules(n) ==
    IF n <= MaxScheduled
       THEN {[k \in 1 .. n |-> p[k] - 1] : p \in Permutations(1 .. n)}
       ELSE {[k \in 1 .. n |-> k - 1], [k \in 1 .. n |-> n - k]}

\* the kernel's work-items, one pixel each, run in the order sched
RECURSIVE Dispatch(_, _, _, _)
Dispatch(buf, frame, proc, sched) ==
    IF sched = <<>> THEN buf
    ELSE LET idx == Head(sched)
         IN Dispatch(Write8(buf, proc.color_idx[idx],
                            KernelDigits(frame.kind, frame.buffer[idx + 1])),
                     frame, proc, Tail(sched))

\* GpuProcessor::process: the template filled in, without its first eight bytes
GpuProcess(frame, proc, sched) ==
    LET filled == Dispatch(proc.template, frame, proc, sched)
    IN Ok(SubSeq(filled, COMMAND_BUFFER_COLOR_LENGTH + 1, Len(filled)))

\* the pixels frames are made of: gray and opaque, coloured and opaque, two
\* channels equal and opaque, coloured with alpha, gray with alpha
Colors ==
    << <<128, 128, 128, 255>>, <<18, 52, 86, 255>>, <<10, 10, 11, 255>>,
       <<18, 52, 86, 120>>, <<7, 7, 7, 0>> >>

\* the pixel buffers of n pixels tried: the colours in turn from each start, and
\* all gray
Buffers(n) ==
    {[i \in 1 .. n |-> Colors[(((i - 1) + k) % Len(Colors)) + 1]] : k \in 0 .. Len(Colors) - 1}
        \cup {[i \in 1 .. n |-> Colors[1]]}

\* the frames of n pixels tried
Frames(n) == {Rgba(b) : b \in Buffers(n)} \cup {Bgra(b) : b \in Buffers(n)}

\* draw_order(size): the orders the strategy can return
DrawOrder(s, sz) ==
    IF s.tag = "Random" THEN Shuffles(GenerateDrawOrder(sz[1], sz[2], FALSE))
    ELSE IF s.tag = "Rows"
        THEN LET o == GenerateDrawOrder(sz[2], sz[1], TRUE)
             IN {IF s.reversed THEN Reverse(o) ELSE o}
    ELSE LET o == GenerateDrawOrder(sz[1], sz[2], FALSE)
         IN {IF s.reversed THEN Reverse(o) ELSE o}

\* the arguments of a processor: (size, offset, canvas_size)
Placement(sz, off, canvas) == [size |-> sz, offset |-> off, canvas_size |-> canvas]

\* every small frame at every small offset on every small canvas, and with them
\* a 4 x 4 frame hanging over the corner of a 3 x 3 canvas and two frames placed
\* at the far end of the u16 range
Placements ==
    {Placement(sz, off, canvas) :
        sz \in (1 .. MaxFrameWidth) \X (1 .. MaxFrameHeight),
        off \in (0 .. MaxOffset) \X (0 .. MaxOffset),
        canvas \in (1 .. MaxCanvas) \X (1 .. MaxCanvas)}
    \cup {Placement(<<4, 4>>, <<2, 2>>, <<3, 3>>),
          Placement(<<2, 1>>, <<U16Max, 0>>, <<2, 1>>),
          Placement(<<3, 1>>, <<U16Max - 1, 0>>, <<U16Max, 1>>)}

\* main: the arguments are known, no processor is built yet
InitProc ==
    /\ EngineIdle
    /\ MediaIdle
    /\ CliIdle
    /\ SizeIdle
    /\ FlatIdle
    /\ strategy \in Strategies
    /\ \E pl \in Placements :
        /\ size = pl.size
        /\ offset = pl.offset
        /\ canvas_size = pl.canvas_size
    /\ strategy = Random => size[1] * size[2] <= MaxShuffle
    /\ order = None
    /\ processor = None
    /\ pixels = None
    /\ output = None

\* RayonProcessor::new
RayonNew ==
    /\ processor = None
    /\ \E o \in DrawOrder(strategy, size) : order' = Some(o)
    /\ processor' = Some([tag |-> "Rayon"])
    /\ UNCHANGED <<engvars, frames, answer, cache, calls, clockvars, size, strategy,
                   clivars, offset, canvas_size, pixels, output, sizevars, flatvars>>

\* GpuProcessor::new: the template and color_idx, a panic, or no usable device
GpuNew ==
    /\ processor = None
    /\ \/ \E o \in DrawOrder(strategy, size) : \E checks \in BOOLEAN :
            /\ order' = Some(o)
            /\ processor' = Some(GpuNewProcessor(o, size, offset, canvas_size, checks))
       \/ /\ order' = order
          /\ processor' = Some(Err("GpuProcessorError::Setup"))
    /\ UNCHANGED <<engvars, frames, answer, cache, calls, clockvars, size, strategy,
                   clivars, offset, canvas_size, pixels, output, sizevars, flatvars>>

\* RayonProcessor::process, Frame::Rgba
RayonProcessRgba ==
    /\ processor = Some([tag |-> "Rayon"])
    /\ output = None
    /\ \E f \in Frames(size[1] * size[2]) : \E o \in order : \E checks \in BOOLEAN :
        /\ f.kind = "Rgba"
        /\ pixels' = Some(f)
        /\ output' = Some(RayonProcess(f, o, size[1], offset, canvas_size, checks))
    /\ UNCHANGED <<engvars, frames, answer, cache, calls, clockvars, drawvars,
                   clivars, offset, canvas_size, processor, sizevars, flatvars>>

\* RayonProcessor::process, Frame::Bgra
RayonProcessBgra ==
    /\ processor = Some([tag |-> "Rayon"])
    /\ output = None
    /\ \E f \in Frames(size[1] * size[2]) : \E o \in order : \E checks \in BOOLEAN :
        /\ f.kind = "Bgra"
        /\ pixels' = Some(f)
        /\ output' = Some(RayonProcess(f, o, size[1], offset, canvas_size, checks))
    /\ UNCHANGED <<engvars, frames, answer, cache, calls, clockvars, drawvars,
                   clivars, offset, canvas_size, processor, sizevars, flatvars>>

\* GpuProcessor::process: the buffer downloaded, or an error of the device
GpuProcessFrame ==
    /\ output = None
    /\ \E proc \in processor : \E f \in Frames(size[1] * size[2]) :
        /\ proc.tag = "Gpu"
        /\ pixels' = Some(f)
        /\ \/ \E sched \in Schedules(proc.threads) :
                output' = Some(GpuProcess(f, proc, sched))
           \/ output' = Some(Err("GpuProcessorError"))
    /\ UNCHANGED <<engvars, frames, answer, cache, calls, clockvars, drawvars,
                   clivars, offset, canvas_size, processor, sizevars, flatvars>>

NextProc ==
    \/ RayonNew
    \/ GpuNew
    \/ RayonProcessRgba
    \/ RayonProcessBgra
    \/ GpuProcessFrame

SpecProc == InitProc /\ [][NextProc]_vars


(***************************************************************************)
(* Reading a command buffer back: the reference reader of Pixelflut        *)
(* commands, `PX <x> <y> <rr|rrggbb|rrggbbaa>` and a newline.              *)
(***************************************************************************)
\* the value of a lowercase hex digit, -1 for any other byte
HexValue(c) ==
    IF \E i \in 1 .. Len(HexDigits) : HexDigits[i] = c
       THEN (CHOOSE i \in 1 .. Len(HexDigits) : HexDigits[i] = c) - 1
       ELSE 0 - 1

\* the byte two hex digits stand for, -1 when one of them is no hex digit
Byte(str, i) ==
    IF HexValue(str[i]) < 0 \/ HexValue(str[i + 1]) < 0 THEN 0 - 1
    ELSE (HexValue(str[i]) * 16) + HexValue(str[i + 1])

\* (r, g, b, a) of a colour field: rr is gray and opaque, rrggbb opaque
ReadColor(str) ==
    IF Len(str) = 2 THEN <<Byte(str, 1), Byte(str, 1), Byte(str, 1), 255>>
    ELSE IF Len(str) = 6 THEN <<Byte(str, 1), Byte(str, 3), Byte(str, 5), 255>>
    ELSE IF Len(str) = 8 THEN <<Byte(str, 1), Byte(str, 3), Byte(str, 5), Byte(str, 7)>>
    ELSE <<0 - 1, 0 - 1, 0 - 1, 0 - 1>>

\* a command line without its newline, read: Ok([x, y, color, digits]) or Err
ReadCommand(line) ==
    LET t == Split(line, " ")
    IN IF Len(t) /= 4 \/ t[1] /= PX \/ t[2] = <<>> \/ t[3] = <<>> THEN Err("no command")
       ELSE LET x == ReadDigits(t[2], 0)
                y == ReadDigits(t[3], 0)
                c == ReadColor(t[4])
            IN IF x < 0 \/ y < 0 \/ \E i \in 1 .. 4 : c[i] < 0 THEN Err("no command")
               ELSE Ok([x |-> x, y |-> y, color |-> c, digits |-> Len(t[4])])

\* the lines of a buffer, each without its newline; what follows the last
\* newline, if anything, is the last of them
Lines(bytes) ==
    LET pieces == Split(bytes, "\n")
    IN IF pieces[Len(pieces)] = <<>> THEN SubSeq(pieces, 1, Len(pieces) - 1) ELSE pieces

\* the (x, y) of the commands of a buffer, in sequence
Coordinates(bytes) ==
    LET ls == Lines(bytes)
    IN [k \in 1 .. Len(ls) |->
           LET c == ReadCommand(ls[k])
           IN IF c.tag = "Ok" THEN <<c.value.x, c.value.y>> ELSE <<0 - 1, 0 - 1>>]

\* the pixels of a draw order whose placed coordinate lies on the canvas, placed
OnCanvas(draw_order, off, canvas) ==
    LET inside == SelectSeq(draw_order,
                            LAMBDA c : c[1] + off[1] < canvas[1] /\ c[2] + off[2] < canvas[2])
    IN [k \in 1 .. Len(inside) |-> <<inside[k][1] + off[1], inside[k][2] + off[2]>>]

\* the processor built is the CPU processor
IsRayon == processor = Some([tag |-> "Rayon"])

\* C21: the CPU processor omits exactly the pixels whose placed coordinate falls
\* outside the canvas: from an RGBA frame, the commands it emits are those of the
\* pixels with x + offset_x < canvas_W and y + offset_y < canvas_H (for a 4 x 4
\* frame at offset (2, 2) on a 3 x 3 canvas: the one command for 'PX 2 2').
C21_OmitsOutsideCanvas ==
    \A out \in output : \A f \in pixels : \A o \in order :
        (IsRayon /\ f.kind = "Rgba")
            => /\ out.tag = "Ok"
               /\ Coordinates(out.value) = OnCanvas(o, offset, canvas_size)

\* the sequence seq without the elements outside the set keep
Only(seq, keep) == SelectSeq(seq, LAMBDA c : c \in keep)

\* the elements of a sequence
Range(seq) == {seq[k] : k \in 1 .. Len(seq)}

\* the command line the reference writes for a command read
WriteCommand(c) ==
    PX \o SP \o Decimal(c.x) \o SP \o Decimal(c.y) \o SP
       \o (IF c.digits = 2 THEN Hex2(c.color[1])
           ELSE IF c.digits = 6 THEN Hex2(c.color[1]) \o Hex2(c.color[2]) \o Hex2(c.color[3])
           ELSE Hex2(c.color[1]) \o Hex2(c.color[2]) \o Hex2(c.color[3]) \o Hex2(c.color[4]))
       \o NL

\* the frame of the example: 2 x 2, every pixel (0x80, 0x80, 0x80, 0xFF)
GrayFrame == Rgba([i \in 1 .. 4 |-> <<128, 128, 128, 255>>])

\* 'PX 0 0 80\nPX 1 0 80\nPX 0 1 80\nPX 1 1 80\n'
GrayDown ==
    <<"P", "X", " ", "0", " ", "0", " ", "8", "0", "\n",
      "P", "X", " ", "1", " ", "0", " ", "8", "0", "\n",
      "P", "X", " ", "0", " ", "1", " ", "8", "0", "\n",
      "P", "X", " ", "1", " ", "1", " ", "8", "0", "\n">>

\* C22: the CPU processor's output (RGBA frame) is the concatenation of the
\* per-pixel command lines in draw-order sequence, with coordinates x + offset_x
\* and y + offset_y in decimal: the buffer is made of command lines and nothing
\* else, each for the placed coordinate of a pixel of the frame, one after the
\* other as the draw order has them; for a 2 x 2 frame of (0x80, 0x80, 0x80,
\* 0xFF), offset (0, 0), canvas (2, 2), strategy down, it is byte for byte
\* 'PX 0 0 80\nPX 1 0 80\nPX 0 1 80\nPX 1 1 80\n'.
C22_DrawOrderConcatenation ==
    \A out \in output : \A f \in pixels : \A o \in order :
        (IsRayon /\ f.kind = "Rgba")
            => /\ out.tag = "Ok"
               /\ LET ls     == Lines(out.value)
                      placed == [k \in 1 .. Len(o) |-> <<o[k][1] + offset[1], o[k][2] + offset[2]>>]
                      coords == Coordinates(out.value)
                  IN /\ \A k \in 1 .. Len(ls) : ReadCommand(ls[k]).tag = "Ok"
                     /\ out.value = Flatten([k \in 1 .. Len(ls) |->
                                                WriteCommand(ReadCommand(ls[k]).value)])
                     /\ coords = Only(placed, Range(coords))
                     /\ \A k \in 1 .. Len(ls) : \A j \in 1 .. Len(o) :
                            coords[k] = placed[j]
                                => ReadCommand(ls[k]).value.color = PixelAt(f.buffer, o[j], size[1])
               /\ (f = GrayFrame /\ size = <<2, 2>> /\ offset = <<0, 0>>
                     /\ canvas_size = <<2, 2>> /\ strategy = Rows(FALSE))
                    => out.value = GrayDown

\* the example of C22 has been processed
C22_Witness ==
    \E out \in output : \E f \in pixels :
        /\ IsRayon /\ f = GrayFrame
        /\ size = <<2, 2>> /\ offset = <<0, 0>> /\ canvas_size = <<2, 2>>
        /\ strategy = Rows(FALSE)
        /\ out.tag = "Ok" /\ out.value = GrayDown

\* the shortest legal form of a colour: the number of hex digits
ShortestDigits(p) ==
    IF p[4] = 255 /\ p[1] = p[2] /\ p[2] = p[3] THEN 2
    ELSE IF p[4] = 255 THEN 6
    ELSE 8

\* the pixels the CPU processor keeps, in draw order
KeptPixels(draw_order, canvas) == SelectSeq(draw_order, LAMBDA c : RayonKeeps(c, canvas))

C24_NewlineTerminated ==
    \A out \in output :
        out.tag = "Ok"
            => LET ls == Lines(out.value)
               IN /\ \A k \in 1 .. Len(ls) : ReadCommand(ls[k]).tag = "Ok"
                  /\ out.value = Flatten([k \in 1 .. Len(ls) |-> ls[k] \o NL])
                  /\ out.value /= <<>> => out.value[Len(out.value)] = "\n"

\* a BGRA frame of several pixels has been processed by the CPU processor
C24_Witness ==
    \E out \in output : \E f \in pixels : \E o \in order :
        /\ IsRayon /\ f.kind = "Bgra" /\ out.tag = "Ok"
        /\ Len(KeptPixels(o, canvas_size)) > 1

\* the colour (r, g, b, a) of a pixel of a frame
Channels(kind, p) == IF kind = "Rgba" THEN p ELSE <<p[3], p[2], p[1], p[4]>>

\* the line of the full form: 'PX x y rrggbbaa\n'
FullCommand(x, y, c) ==
    PX \o SP \o Decimal(x) \o SP \o Decimal(y) \o SP
       \o Hex2(c[1]) \o Hex2(c[2]) \o Hex2(c[3]) \o Hex2(c[4]) \o NL

\* the pixels of a draw order whose placed coordinate lies on the canvas
InCanvas(draw_order, off, canvas) ==
    SelectSeq(draw_order, LAMBDA c : c[1] + off[1] < canvas[1] /\ c[2] + off[2] < canvas[2])

\* the processor built is a GPU processor, or GpuProcessor::new panicked
IsGpu == \E proc \in processor : proc.tag \in {"Gpu", "panic"}

\* the frame of the example: one pixel (0x12, 0x34, 0x56, 0x78)
OnePixel == Rgba(<< <<18, 52, 86, 120>> >>)

\* 'PX 0 0 12345678\n'
OnePixelLine ==
    <<"P", "X", " ", "0", " ", "0", " ", "1", "2", "3", "4", "5", "6", "7", "8", "\n">>

\* C25: the GPU processor emits, for every in-canvas pixel in draw order, one
\* line 'PX <x + offset_x> <y + offset_y> ' followed by exactly 8 lowercase hex
\* digits RRGGBBAA and '\n', for the RGBA and the BGRA kernel alike and never a
\* shorthand; for the one RGBA pixel (0x12, 0x34, 0x56, 0x78) at (0, 0) on a
\* 1 x 1 canvas the output is 'PX 0 0 12345678\n', as the CPU processor's is, and no placeholder 'X'
\* remains in the returned buffer: every colour field reads as 8 hex digits.
C25_GpuFullForm ==
    IsGpu =>
        /\ \A proc \in processor : proc.tag = "Gpu"
        /\ \A out \in output : \A f \in pixels : \A o \in order :
              out.tag = "Ok"
                  => LET inside == InCanvas(o, offset, canvas_size)
                     IN /\ out.value =
                              Flatten([k \in 1 .. Len(inside) |->
                                  FullCommand(inside[k][1] + offset[1],
                                              inside[k][2] + offset[2],
                                              Channels(f.kind,
                                                       PixelAt(f.buffer, inside[k], size[1])))])
                        /\ \A k \in 1 .. Len(Lines(out.value)) :
                              LET c == ReadCommand(Lines(out.value)[k])
                              IN c.tag = "Ok" /\ c.value.digits = COMMAND_BUFFER_COLOR_LENGTH
                        /\ (f = OnePixel /\ offset = <<0, 0>> /\ canvas_size = <<1, 1>>)
                              => /\ out.value = OnePixelLine
                                 /\ out = RayonProcess(f, o, size[1], offset, canvas_size, TRUE)

\* the example of C25 has been processed by the GPU processor
C25_Witness ==
    \E out \in output : \E f \in pixels :
        /\ IsGpu /\ f = OnePixel /\ size = <<1, 1>>
        /\ offset = <<0, 0>> /\ canvas_size = <<1, 1>>
        /\ out.tag = "Ok" /\ out.value = OnePixelLine


Field(at) == at .. (at + COMMAND_BUFFER_COLOR_LENGTH - 1)

\* C32: GPU work-items do not interfere on the returned bytes.  color_idx is 0
\* exactly for the pixels out of the canvas (x + offset_x >= canvas_W or
\* y + offset_y >= canvas_H), whose 8 bytes fall in the leading 8 bytes that
\* are discarded; the fields [color_idx[i], color_idx[i] + 7] of the pixels in
\* the canvas are pairwise disjoint, start at 8 or later, lie inside the
\* template and cover placeholder bytes only; and the buffer returned is the
\* same in whatever order the work-items run.
C32_WorkItemsDisjoint ==
    \A proc \in processor : \A o \in order :
        proc.tag = "Gpu"
            => LET w      == size[1]
                   idx(c) == (c[2] * w) + c[1]
                   inside == {idx(c) : c \in Range(InCanvas(o, offset, canvas_size))}
                   all    == 0 .. (size[1] * size[2]) - 1
               IN /\ \A i \in all : proc.color_idx[i] = 0 <=> i \notin inside
                  /\ \A i \in all \ inside :
                        Field(proc.color_idx[i]) \subseteq 0 .. COMMAND_BUFFER_COLOR_LENGTH - 1
                  /\ \A i \in inside :
                        /\ proc.color_idx[i] >= COMMAND_BUFFER_COLOR_LENGTH
                        /\ Field(proc.color_idx[i]) \subseteq 0 .. Len(proc.template) - 1
                        /\ \A b \in Field(proc.color_idx[i]) : proc.template[b + 1] = "X"
                        /\ \A j \in inside \ {i} :
                              Field(proc.color_idx[i]) \cap Field(proc.color_idx[j]) = {}
                  /\ \A f \in pixels : \A out \in output :
                        out.tag = "Ok"
                            => \A sched \in Schedules(proc.threads) :
                                  GpuProcess(f, proc, sched) = out

\* a GPU processor with two pixels in the canvas and one out of it has
\* processed a frame
C32_Witness ==
    \E proc \in processor : \E o \in order : \E out \in output :
        /\ proc.tag = "Gpu" /\ out.tag = "Ok"
        /\ Len(InCanvas(o, offset, canvas_size)) >= 2
        /\ Len(InCanvas(o, offset, canvas_size)) < Len(o)


(***************************************************************************)
(* The two branches of the CPU processor, side by side.                    *)
(***************************************************************************)
\* the RGBA frame with the colours of a BGRA frame
AsRgba(f) == Rgba([i \in 1 .. Len(f.buffer) |-> Channels(f.kind, f.buffer[i])])

\* C33: the CPU processor applies the placement offset uniformly: processing a
\* BGRA frame yields byte for byte the buffer that processing the RGBA frame
\* with the same colours yields, the coordinates emitted being x + offset_x and
\* y + offset_y in both branches.
C33_BgraAsRgba ==
    \A out \in output : \A f \in pixels : \A o \in order :
        (IsRayon /\ f.kind = "Bgra")
            => /\ \E checks \in BOOLEAN :
                    out = RayonProcess(AsRgba(f), o, size[1], offset, canvas_size, checks)
               /\ out.tag = "Ok"
                    => LET kept == KeptPixels(o, canvas_size)
                       IN Coordinates(out.value) =
                              [k \in 1 .. Len(kept) |->
                                  <<kept[k][1] + offset[1], kept[k][2] + offset[2]>>]

\* a BGRA frame has been processed by a CPU processor placed off the origin
C33_Witness ==
    \E out \in output : \E f \in pixels : \E o \in order :
        /\ IsRayon /\ f.kind = "Bgra" /\ out.tag = "Ok"
        /\ offset = <<1, 1>>
        /\ KeptPixels(o, canvas_size) /= <<>>


(***************************************************************************)
(* BreadthFlatten (epizentrum/src/breadth_flatten.rs): an iterator over a  *)
(* queue of iterators.  An iterator is known by its place in the input and *)
(* by the items it still has; its k-th item is the pair (place, k).        *)
(***************************************************************************)
\* the most iterators given to BreadthFlatten::new
MaxIters == 3
\* the most items of one iterator
MaxItems == 3
\* the most calls of next() followed after the last item
MaxNone == 2

\* the iterator at place id with n items, none taken yet
Iter(id, n) == [id |-> id, rest |-> [k \in 1 .. n |-> <<id, k>>]]

\* BreadthFlatten::new: iterators.collect()
New(lens) == [i \in 1 .. Len(lens) |-> Iter(i, lens[i])]

\* one call of next(): who was polled, and the item returned
Call(polled, item) == [polled |-> polled, item |-> item]

\* a loop of next() that returns the iterator it took an item from to the front
Poll_Front(queue, polled) ==
    IF queue = <<>> THEN [iterators |-> <<>>, call |-> Call(polled, None)]
    ELSE LET iter == Head(queue) IN
         IF iter.rest /= <<>>
            THEN [iterators |-> <<[iter EXCEPT !.rest = Tail(iter.rest)]>> \o Tail(queue),
                  call |-> Call(Append(polled, iter.id), Some(Head(iter.rest)))]
            ELSE [iterators |-> Tail(queue), call |-> Call(Append(polled, iter.id), None)]

\* the loop of next(): pop_front, iter.next(), push_back and return on Some, go
\* on with the next iterator on None
RECURSIVE Poll(_, _)
Poll(queue, polled) ==
    IF queue = <<>> THEN [iterators |-> <<>>, call |-> Call(polled, None)]
    ELSE LET iter == Head(queue) IN
         IF iter.rest /= <<>>
            THEN [iterators |-> Append(Tail(queue), [iter EXCEPT !.rest = Tail(iter.rest)]),
                  call |-> Call(Append(polled, iter.id), Some(Head(iter.rest)))]
            ELSE Poll(Tail(queue), Append(polled, iter.id))

\* a BreadthFlatten built over up to MaxIters iterators of up to MaxItems items
InitFlatten ==
    /\ EngineIdle
    /\ MediaIdle
    /\ size = <<0, 0>>
    /\ strategy = Rows(FALSE)
    /\ order = None
    /\ CliIdle
    /\ ProcIdle
    /\ SizeIdle
    /\ inputs \in {New(lens) : lens \in UNION {[1 .. n -> 0 .. MaxItems] : n \in 0 .. MaxIters}}
    /\ iterators = inputs
    /\ taken = <<>>

\* next() returns Some(item)
FlattenSome ==
    /\ LET got == Poll(iterators, <<>>) IN
        /\ got.call.item /= None
        /\ iterators' = got.iterators
        /\ taken' = Append(taken, got.call)
    /\ UNCHANGED <<engvars, frames, answer, cache, calls, clockvars, drawvars, clivars,
                   procvars, sizevars, inputs>>

\* next() returns None
FlattenNone ==
    /\ Cardinality({k \in 1 .. Len(taken) : taken[k].item = None}) < MaxNone
    /\ LET got == Poll(iterators, <<>>) IN
        /\ got.call.item = None
        /\ iterators' = got.iterators
        /\ taken' = Append(taken, got.call)
    /\ UNCHANGED <<engvars, frames, answer, cache, calls, clockvars, drawvars, clivars,
                   procvars, sizevars, inputs>>

NextFlatten ==
    \/ FlattenSome
    \/ FlattenNone

SpecFlatten == InitFlatten /\ [][NextFlatten]_vars

\* the items returned by the first n calls, in sequence
Yielded(n) ==
    LET some == SelectSeq(SubSeq(taken, 1, n), LAMBDA c : c.item /= None)
    IN [k \in 1 .. Len(some) |-> CHOOSE x \in some[k].item : TRUE]

\* how many of the items returned by the first n calls came from iterator id
TakenFrom(id, n) == Len(SelectSeq(Yielded(n), LAMBDA x : x[1] = id))

\* iterator id has returned None in one of the first n calls
Ended(id, n) ==
    \E k \in 1 .. n :
        \E j \in 1 .. Len(taken[k].polled) :
            /\ taken[k].polled[j] = id
            /\ taken[k].item = None \/ j < Len(taken[k].polled)

\* C34: BreadthFlatten interleaves its iterators round-robin.  Once next() has
\* returned None, the items returned are all the items of all the iterators,
\* each once; in every prefix of the output the numbers of items taken from
\* two iterators that have not returned None differ by at most 1; the items of
\* one iterator come in their own order; an iterator that has returned None is
\* never polled again; and next() returns None only when every iterator has
\* no item left.
C34_RoundRobin ==
    LET n   == Len(taken)
        ids == 1 .. Len(inputs)
        out == Yielded(n)
    IN /\ \A k \in 1 .. Len(out) : \A j \in 1 .. Len(out) : (k /= j) => out[k] /= out[j]
       /\ \A k \in 1 .. Len(out) :
             out[k][1] \in ids /\ out[k][2] \in 1 .. Len(inputs[out[k][1]].rest)
       /\ (\E k \in 1 .. n : taken[k].item = None)
             => \A id \in ids : TakenFrom(id, n) = Len(inputs[id].rest)
       /\ \A m \in 0 .. n : \A a \in ids : \A b \in ids :
             (~Ended(a, m) /\ ~Ended(b, m))
                 => TakenFrom(a, m) - TakenFrom(b, m) \in {0 - 1, 0, 1}
       /\ \A k \in 1 .. Len(out) : \A j \in 1 .. Len(out) :
             (k < j /\ out[k][1] = out[j][1]) => out[k][2] < out[j][2]
       /\ \A m \in 1 .. n : \A j \in 1 .. Len(taken[m].polled) :
             ~Ended(taken[m].polled[j], m - 1)
       /\ \A m \in 1 .. n :
             taken[m].item = None
                 => \A id \in ids : TakenFrom(id, m) = Len(inputs[id].rest)

\* three iterators of different lengths, one of them empty, have been drained
\* and next() has returned None
C34_Witness ==
    /\ Len(inputs) = 3
    /\ {Len(inputs[i].rest) : i \in 1 .. 3} = {0, 1, 3}
    /\ Len(taken) = 5
    /\ taken[5].item = None


(***************************************************************************)
(* The engine again: the counter, reconnect episodes, and what a           *)
(* connection writes after a failure.                                      *)
(***************************************************************************)
\* C35: the `connections` counter never underflows: `connections -= 1` is never
\* executed while the counter is 0, in the run phase with any reconnect_limit
\* and in the teardown that follows, and no connection has the counter
\* decremented for it more than once: not twice while the engine runs, and not
\* once while it runs and again for an operation it still has at teardown.
C35_NoUnderflow ==
    /\ connections >= 0
    /\ phase /= "panicked"
    /\ \A id \in DOMAIN died :
        /\ died[id] <= 1
        /\ (died[id] = 1 /\ phase = "teardown") => EntriesOf(ring, id) = {}

\* teardown has handled the completions of two connections that were never
\* counted dead
C35_Witness ==
    /\ phase = "teardown"
    /\ opened = 2
    /\ ring = {}
    /\ \A id \in DOMAIN died : died[id] = 0

\* C36: the reconnect counter and the backoff count consecutive connect
\* failures only.  Every write failure of an established connection that
\* starts a reconnect episode starts it with reconnects = 1 and backoff = 1 s,
\* whatever the connection went through before; the two are carried unchanged
\* from the timeout to its connect, the counter goes up by one with each failed
\* connect, and a successful connect leaves neither behind: the data of an
\* established connection holds no counter and no backoff, so that a later
\* failure cannot be counted on top of an earlier episode.
C36_EpisodesStartAfresh ==
    [][\A x \in ring :
          (Handled(x) /\ x \notin ring' /\ flow' = "Continue")
              => \E y \in ring' :
                    /\ EntriesOf(ring', ConnOf(x.data)) = {y}
                    /\ (x.data.tag = "ConnectionEstablished" /\ last'.result <= 0)
                          => /\ y.data.tag = "Backoff"
                             /\ y.data.data.tag = "Reconnecting"
                             /\ y.data.data.reconnects = 1
                             /\ y.data.data.backoff = 1
                    /\ (x.data.tag = "Reconnecting" /\ last'.result < 0)
                          => /\ y.data.tag = "Backoff"
                             /\ y.data.data.tag = "Reconnecting"
                             /\ y.data.data.reconnects = x.data.reconnects + 1
                    /\ x.data.tag = "Backoff"
                          => y.data = x.data.data
                    /\ ((x.data.tag = "Reconnecting" /\ last'.result = 0)
                           \/ (x.data.tag = "ConnectionEstablished" /\ last'.result > 0))
                          => /\ y.data.tag = "ConnectionEstablished"
                             /\ {"reconnects", "backoff"} \cap DOMAIN y.data = {}]_vars

\* a connection that was counted at a failed connect of an earlier episode,
\* reconnected and wrote again, has just had a write fail: its new episode is
\* at reconnects = 1
C36_Witness ==
    /\ phase = "running"
    /\ flow = "Continue"
    /\ last.result < 0
    /\ \E y \in ring :
        /\ ConnOf(y.data) = last.conn
        /\ died[last.conn] = 1
        /\ y.data.tag = "Backoff"
        /\ y.data.data.reconnects = 1

\* C37: a buffer whose write failed is never resumed or resent.  When a write
\* completes with result <= 0 the cursor (buffer, bytes_written) is dropped:
\* the data of the reconnect holds no buffer; connection id, peer address and
\* source_index go unchanged through Backoff and Reconnecting, failed connects
\* included; and after a successful connect the first write is a whole buffer
\* freshly fetched from sources[source_index], with cursor 0, on the socket
\* that was connected.
C37_FailedBufferDropped ==
    [][\A x \in ring :
          (Handled(x) /\ x \notin ring' /\ flow' = "Continue")
              => \E y \in ring' :
                    LET d == Inner(x.data)
                        c == Inner(y.data)
                    IN /\ EntriesOf(ring', ConnOf(x.data)) = {y}
                       /\ c.connection_id = d.connection_id
                       /\ c.addr = d.addr
                       /\ (x.data.tag = "ConnectionEstablished" /\ last'.result <= 0)
                             => /\ y.data.tag = "Backoff"
                                /\ c.tag = "Reconnecting"
                                /\ "last_buffer" \notin DOMAIN c
                                /\ c.source_index = d.source_index
                                /\ y.data.entry.op = "connect"
                                /\ y.data.entry.fd = c.socket
                       /\ (x.data.tag = "Reconnecting" /\ last'.result < 0)
                             => /\ y.data.tag = "Backoff"
                                /\ c.tag = "Reconnecting"
                                /\ "last_buffer" \notin DOMAIN c
                                /\ c.source_index = d.source_index
                                /\ c.socket = d.socket
                       /\ x.data.tag = "Backoff"
                             => /\ y.data = x.data.data
                                /\ y.sqe.op = "connect"
                                /\ y.sqe.fd = d.socket
                       /\ (x.data.tag = "Reconnecting" /\ last'.result = 0)
                             => /\ y.data.tag = "ConnectionEstablished"
                                /\ y.sqe.op = "write"
                                /\ y.sqe.fd = d.socket
                                /\ y.data.socket = d.socket
                                /\ y.sqe.frame.src = d.source_index
                                /\ y.sqe.off = 0
                                /\ y.sqe.count = y.sqe.frame.len
                                /\ y.data.last_buffer = [frame |-> y.sqe.frame, written |-> 0]
                                /\ y.data.source_index = (d.source_index + 1) % num_sources]_vars

\* a connection whose write failed
\* has reconnected and writes a whole buffer of source 1 from its start (the
\* connect completed with 0 and the next source index is 2)
C37_Witness ==
    /\ phase = "running"
    /\ flow = "Continue"
    /\ last.result = 0
    /\ num_sources = 3
    /\ \E y \in ring :
        /\ y.sqe.op = "write"
        /\ y.sqe.frame.src = 1
        /\ y.sqe.frame.len = MaxBufLen
        /\ y.sqe.off = 0
        /\ y.data.source_index = 2

\* C38: an empty command buffer does not make a healthy connection fail.  When
\* the write of a buffer of length 0 completes with result 0, the engine goes
\* on, and what it submits for the connection is the write of the next buffer
\* fetched from its sources, not a backoff before a reconnect.
C38_EmptyBufferIsNoFailure ==
    [][\A x \in ring :
          (/\ Handled(x)
           /\ x.data.tag = "ConnectionEstablished"
           /\ x.sqe.frame.len = 0
           /\ last'.result = 0)
              => /\ flow' = "Continue"
                 /\ \E y \in ring' :
                       /\ EntriesOf(ring', ConnOf(x.data)) = {y}
                       /\ y.data.tag = "ConnectionEstablished"
                       /\ y.sqe.op = "write"
                       /\ y.sqe.frame.src = x.data.source_index]_vars

\* the write of an empty buffer is in flight on a connection that has not failed
C38_Witness ==
    /\ phase = "running"
    /\ \E x \in ring :
        /\ x.data.tag = "ConnectionEstablished"
        /\ x.sqe.op = "write"
        /\ x.sqe.frame.len = 0
        /\ x.sqe.count = 0


(***************************************************************************)
(* Write progress.  One connection whose writes always complete with a     *)
(* positive count: the kernel reports 1 .. remaining, never a failure.     *)
(* The buffers of one source cannot be told apart, so progress from one    *)
(* buffer to the next is followed over two and more sources.  Completions  *)
(* are delivered fairly: a write in flight completes and the loop hands    *)
(* its completion to on_completion.                                        *)
(***************************************************************************)
InitWrite ==
    /\ InitWith({None, Some(1)}, {None}, {None}, 2 .. MaxSources, 0, MaxBufLen, {1})
    /\ SourcesIdle

\* a write completed with a positive count
OnWriteProgress == OnWriteFull \/ OnWritePartial

NextWrite ==
    \/ SetupOk
    \/ OnWriteFull
    \/ OnWritePartial
    \/ Drop

SpecWrite == InitWrite /\ [][NextWrite]_vars /\ WF_vars(OnWriteProgress)

\* a non-empty buffer of source s is being written
Writing(s) ==
    /\ phase = "running"
    /\ \E x \in ring :
        /\ x.sqe.op = "write"
        /\ x.sqe.frame.src = s
        /\ x.sqe.frame.len > 0

\* the buffer of source s was written to its end and the buffer of the source
\* after s has just been fetched: its write is in flight from cursor 0
FetchedAfter(s) ==
    /\ flow = "Continue"
    /\ last.result > 0
    /\ \E y \in ring :
        /\ y.sqe.op = "write"
        /\ y.sqe.frame.src = (s + 1) % num_sources
        /\ y.sqe.off = 0
        /\ y.sqe.count = y.sqe.frame.len
        /\ y.data.last_buffer = [frame |-> y.sqe.frame, written |-> 0]

\* on_completion returned an error: the source at the fetch, or the push
StoppedOnError == flow \in {"Error::Any", "Error::SqeSubmission"}

\* what a positive write completion does to the cursor: n short of the rest
\* moves it forward by n within the same buffer, n equal to the rest fetches the
\* next buffer; no n in 1 .. remaining ends anywhere else
CursorAdvances ==
    [][\A x \in ring :
          (Handled(x) /\ x.data.tag = "ConnectionEstablished" /\ last'.result > 0)
              => LET written == x.data.last_buffer.written
                     len     == x.data.last_buffer.frame.len
                     n       == last'.result
                 IN /\ n <= len - written
                    /\ phase' /= "panicked"
                    /\ flow' \in {"Continue", "Error::Any", "Error::SqeSubmission"}
                    /\ flow' = "Error::Any" => written + n = len
                    /\ flow' = "Continue"
                          => \E y \in ring' :
                                /\ EntriesOf(ring', ConnOf(x.data)) = {y}
                                /\ y.sqe.op = "write"
                                /\ y.data.tag = "ConnectionEstablished"
                                /\ IF written + n = len
                                      THEN /\ y.sqe.frame.src = x.data.source_index
                                           /\ y.data.last_buffer.written = 0
                                           /\ y.sqe.off = 0
                                      ELSE /\ y.data.last_buffer.frame = x.data.last_buffer.frame
                                           /\ y.data.last_buffer.written = written + n
                                           /\ y.data.last_buffer.written > written
                                           /\ y.data.last_buffer.written < len
                                           /\ y.data.source_index = x.data.source_index
                                           /\ y.sqe.off = written + n
                                           /\ y.sqe.count = len - (written + n)]_vars

CachedAnimations == {fs \in ClockedAnimations : Sum(fs) > 0}

InitCaches ==
    /\ InitSingle
    /\ frames \in CachedAnimations

NextCaches ==
    \/ Tick
    \/ OnceHit
    \/ OnceMiss
    \/ OnceMissErr
    \/ SingleHit
    \/ SingleMiss
    \/ SingleMissErr

SpecCaches == InitCaches /\ [][NextCaches]_vars

\* the step is a query whose inner call failed
InnerCallFailed ==
    /\ calls' = calls + 1
    /\ \E a \in answer' : a.timing.tag = "Err"

\* C40: a failed inner-source call leaves a cache unchanged.  The query returns
\* the error; ComputeOnceCache has inserted no interval and SingleFrameCache
\* holds the entry and expiry it held; and a later query at the same delta
\* finds what it would have found without the failed one: the same result of
\* the search through the intervals and the same stored entry, against the same
\* clock, so that the cache that missed misses again.
C40_FailedCallLeavesCache ==
    [][InnerCallFailed =>
          /\ cache' = cache
          /\ single' = single
          /\ now' = now
          /\ \A a \in answer' :
                LET d == Wrapped(a.delta, Sum(frames))
                IN /\ a.timing = SourceErr
                   /\ BinarySearch(cache', d, 0, Len(cache'))
                         = BinarySearch(cache, d, 0, Len(cache))
                   /\ \A t \in now .. MaxNow :
                         (\E kept \in single' : StillValid(kept, t))
                             <=> (\E kept \in single : StillValid(kept, t))
                   /\ \/ ~BinarySearch(cache', d, 0, Len(cache')).found
                      \/ \A kept \in single' : ~StillValid(kept, now')]_vars

\* an inner call has just failed while both caches held something: the
\* ComputeOnceCache an interval, the SingleFrameCache an entry that has expired
C40_Witness ==
    /\ \E a \in answer : a.timing = SourceErr
    /\ calls >= 3
    /\ Len(cache) >= 1
    /\ \E kept \in single : ~StillValid(kept, now)

=============================================================================
